---- MODULE Spec2Model ----
(***************************************************************************)
(* A model of xopen (src/src/xopen/__init__.py): the piped compression     *)
(* writer and reader objects with their child process, and the backend     *)
(* ladder that xopen() walks through for each format.                      *)
(*                                                                         *)
(* A behaviour follows ONE caller.  From the initial state the caller      *)
(* either constructs a piped writer, constructs a piped reader, or calls   *)
(* xopen(); the three parts of the state space are disjoint.  Several      *)
(* writers that are open at the same time have a specification of their    *)
(* own, ManySpec.                                                          *)
(***************************************************************************)
EXTENDS Integers, Sequences, FiniteSets, TLC

VARIABLES
    self,     \* fields of the piped stream object (writer or reader)
    proc,     \* the child process and its pipes, as the OS sees them
    call,     \* the caller's position inside a method, with its locals
    hist,     \* what the caller has observed: results and effect counters
    x,        \* one xopen() call: arguments, environment, position, result
    disk,     \* the file at the path of the piped stream, and its past openers
    many,     \* piped writers that are open side by side, with their children
    race,     \* one piped stream with two callers inside close() at a time
    cmd       \* the command line that a piped stream builds for its child

vars == <<self, proc, call, hist, x, disk, many, race, cmd>>

(***************************************************************************)
(* Bounds of the model.                                                    *)
(***************************************************************************)
MaxWrites == 2      \* write() calls on one writer
MaxCloses == 3      \* close() calls on one stream
MaxOutput == 2      \* chunks of output a reading child produces
MaxOpens == 3       \* streams opened one after the other on one path
MaxWriters == 3     \* piped writers open at the same time

(***************************************************************************)
(* Program constants.                                                      *)
(***************************************************************************)
SIGTERM == 15

\* Python's Optional[int]: None is the empty tuple, a value v is <<v>>.
None == <<>>
Some(v) == <<v>>

\* Exit statuses a child may end with on its own account: success, two
\* ordinary failures, and death by a SIGTERM that somebody else sent.
ChildExitCodes == {0, 1, 5, -SIGTERM}

\* Compression levels the caller may pass; they straddle every border of
\* the accepted sets below.
Levels == {-1, 0, 1, 3, 4, 9, 10, 11, 12, 19, 20}

\* A mode check that lets the exclusive-creation mode through.
WriterModesWithX == {"w", "wt", "wb", "a", "at", "ab", "xb"}
WriterModes == {"w", "wt", "wb", "a", "at", "ab"}
ReaderModes == {"r", "rt", "rb"}
\* Mode strings a caller may pass to a constructor, valid and invalid.
CallerModes == WriterModes \cup ReaderModes \cup {"xb"}

IsBinary(m) == m \in {"wb", "ab", "rb", "xb"}

WriterClasses == {"PipedCompressionWriter", "PipedGzipWriter", "PipedPigzWriter",
                  "PipedPBzip2Writer", "PipedXzWriter", "PipedIGzipWriter",
                  "PipedZstdWriter", "PipedPythonIsalWriter"}

ReaderClasses == {"PipedCompressionReader", "PipedGzipReader", "PipedPigzReader",
                  "PipedPBzip2Reader", "PipedXzReader", "PipedIGzipReader",
                  "PipedZstdReader", "PipedPythonIsalReader"}

\* The levels each writer class checks for before it delegates to the base
\* constructor.  The base class and PipedPBzip2Writer check nothing.
ChecksLevel(c) == c \in {"PipedGzipWriter", "PipedPigzWriter", "PipedXzWriter",
                         "PipedIGzipWriter", "PipedZstdWriter",
                         "PipedPythonIsalWriter"}

\* The accepted sets with range(1, 10) of PipedGzipWriter off by one.
AcceptedLevelsOffByOne(c) ==
    CASE c = "PipedGzipWriter"       -> 1..10
      [] c = "PipedPigzWriter"       -> (0..9) \cup {11}
      [] c = "PipedXzWriter"         -> 0..9
      [] c = "PipedIGzipWriter"      -> 0..3
      [] c = "PipedPythonIsalWriter" -> 0..3
      [] c = "PipedZstdWriter"       -> 1..19
      [] OTHER                       -> Levels

AcceptedLevels(c) ==
    CASE c = "PipedGzipWriter"       -> 1..9
      [] c = "PipedPigzWriter"       -> (0..9) \cup {11}
      [] c = "PipedXzWriter"         -> 0..9
      [] c = "PipedIGzipWriter"      -> 0..3
      [] c = "PipedPythonIsalWriter" -> 0..3
      [] c = "PipedZstdWriter"       -> 1..19
      [] OTHER                       -> Levels

\* The text of the ValueError a subclass raises for a bad level, as the two
\* parts of the message.
LevelMessage(c) ==
    CASE c = "PipedGzipWriter"       -> <<"compresslevel must be", "between 1 and 9">>
      [] c = "PipedPigzWriter"       -> <<"compresslevel must be", "between 0 and 9 or 11">>
      [] c = "PipedXzWriter"         -> <<"compresslevel must be", "between 0 and 9">>
      [] c = "PipedIGzipWriter"      -> <<"compresslevel must be", "between 0 and 3">>
      [] c = "PipedPythonIsalWriter" -> <<"compresslevel must be", "between 0 and 3">>
      [] c = "PipedZstdWriter"       -> <<"compresslevel must be", "between 1 and 19">>
      [] OTHER                       -> <<"", "">>

(***************************************************************************)
(* Exceptions.  Every outcome is a record with a type; NoExc is a normal   *)
(* return.                                                                 *)
(***************************************************************************)
NoExc == [type |-> "none"]
ValueErrorLevel(c) == [type |-> "ValueError", about |-> "compresslevel",
                       msg |-> LevelMessage(c)]
ValueErrorMode(m) == [type |-> "ValueError", about |-> "mode",
                      msg |-> <<"Mode is", m, "but it must be">>]
OSErrorOpen == [type |-> "OSError", about |-> "open"]
OSErrorSpawn == [type |-> "OSError", about |-> "spawn"]
BrokenPipeError == [type |-> "OSError", about |-> "broken pipe"]
ValueErrorClosedFile == [type |-> "ValueError", about |-> "closed file"]
\* PipedCompressionWriter.close: "Output process '...' terminated with exit
\* code N" followed by an optional possible cause.
OSErrorExitCode(n) == [type |-> "OSError", about |-> "exit",
                       msg |-> <<"Output process", "terminated with exit code", n>>]
\* PipedCompressionReader._raise_if_error: "{stderr!r} (exit code {N})".
OSErrorStderr(text, n) == [type |-> "OSError", about |-> "exit",
                           msg |-> <<text, "exit code", n>>]

(***************************************************************************)
(* Initial values of the parts of the state.                               *)
(***************************************************************************)
NoObject == [kind |-> "none", cls |-> "none", mode |-> "none", closed |-> FALSE,
             file |-> "none", outfile |-> "none", wbuf |-> 0,
             platform |-> "posix", level |-> None]

NoProcess == [st |-> "none", code |-> 0, returncode |-> None,
              inpipe |-> 0, consumed |-> 0, afterStdinClosed |-> FALSE,
              outpipe |-> 0, produced |-> 0, stdout |-> "none",
              stderr |-> "none", errText |-> <<>>, signalled |-> FALSE,
              source |-> None]

IdleCall == [pc |-> "idle", retcode |-> None, check |-> FALSE,
             stderr_message |-> <<>>]

NoHistory == [ctor |-> NoExc, opened |-> 0, spawned |-> 0, writes |-> 0,
              lastWrite |-> NoExc, closeCalls |-> 0, closeResults |-> <<>>,
              stdinCloses |-> 0, waits |-> 0, outfileCloses |-> 0,
              polls |-> 0, terminates |-> 0, communicates |-> 0,
              fileCloses |-> 0, accepted |-> 0, got |-> 0, eofReads |-> <<>>,
              probe |-> <<>>, probeRuns |-> 0, concat |-> <<>>]

\* The file at the path: the members the compression programs have written
\* to it, in order; what the streams opened for writing on it have accepted
\* so far; and the number of streams opened on it.
NoDisk == [content |-> <<>>, written |-> <<>>, opens |-> 0]

NoXopen == [pc |-> "none", std |-> [stdin |-> "open", stdout |-> "open"]]

\* Nothing has been constructed or called yet.
Fresh == self.kind = "none" /\ x.pc = "none" /\ hist.ctor = NoExc

\* The teardown work close() has done so far on the stream.
Teardown(h) == <<h.stdinCloses, h.waits, h.outfileCloses, h.terminates,
                 h.communicates, h.fileCloses>>

(***************************************************************************)
(* PipedCompressionWriter.__init__ and the subclasses' __init__, as a      *)
(* function of the arguments and of what the system answers: whether the   *)
(* destination can be opened (sinkOK) and whether the program can be       *)
(* spawned (progOK).  It returns the exception and the effects.            *)
(***************************************************************************)
\* A constructor that lets the OSError of Popen pass without a handler.
OutfileAfterSpawnFailureLeft == "open"

\* lines 231-233: "except OSError: self.outfile.close(); raise"
OutfileAfterSpawnFailure == "closed"

\* A constructor that spawns the program before it opens the destination.
WriterInitSpawnsFirst(c, m, lvl, sinkOK, progOK) ==
    IF ChecksLevel(c) /\ lvl # None /\ lvl[1] \notin AcceptedLevels(c)
    THEN [exc |-> ValueErrorLevel(c), opened |-> 0, outfile |-> "none",
          spawnTried |-> FALSE, spawned |-> 0]
    ELSE IF m \notin WriterModes
    THEN [exc |-> ValueErrorMode(m), opened |-> 0, outfile |-> "none",
          spawnTried |-> FALSE, spawned |-> 0]
    ELSE IF ~progOK
    THEN [exc |-> OSErrorSpawn, opened |-> 0, outfile |-> "none",
          spawnTried |-> TRUE, spawned |-> 0]
    ELSE IF ~sinkOK
    THEN [exc |-> OSErrorOpen, opened |-> 0, outfile |-> "none",
          spawnTried |-> TRUE, spawned |-> 1]
    ELSE [exc |-> NoExc, opened |-> 1, outfile |-> "open",
          spawnTried |-> TRUE, spawned |-> 1]

WriterInit(c, m, lvl, sinkOK, progOK) ==
    IF ChecksLevel(c) /\ lvl # None /\ lvl[1] \notin AcceptedLevels(c)
    THEN [exc |-> ValueErrorLevel(c), opened |-> 0, outfile |-> "none",
          spawnTried |-> FALSE, spawned |-> 0]
    ELSE IF m \notin WriterModes
    THEN [exc |-> ValueErrorMode(m), opened |-> 0, outfile |-> "none",
          spawnTried |-> FALSE, spawned |-> 0]
    ELSE IF ~sinkOK
    THEN [exc |-> OSErrorOpen, opened |-> 0, outfile |-> "none",
          spawnTried |-> FALSE, spawned |-> 0]
    ELSE IF ~progOK
    THEN [exc |-> OSErrorSpawn, opened |-> 1,
          outfile |-> OutfileAfterSpawnFailure,
          spawnTried |-> TRUE, spawned |-> 0]
    ELSE [exc |-> NoExc, opened |-> 1, outfile |-> "open",
          spawnTried |-> TRUE, spawned |-> 1]

\* The format a class's program writes or reads; the base classes run any
\* program.
FormatOf(c) ==
    CASE c \in {"PipedGzipWriter", "PipedPigzWriter", "PipedIGzipWriter",
                "PipedPythonIsalWriter", "PipedGzipReader", "PipedPigzReader",
                "PipedIGzipReader", "PipedPythonIsalReader"} -> "gz"
      [] c \in {"PipedPBzip2Writer", "PipedPBzip2Reader"} -> "bz2"
      [] c \in {"PipedXzWriter", "PipedXzReader"} -> "xz"
      [] c \in {"PipedZstdWriter", "PipedZstdReader"} -> "zst"
      [] OTHER -> "raw"

\* An open() that truncates in every mode.
OpenOutfileTruncating(d, m) ==
    [d EXCEPT !.content = <<>>, !.opens = @ + 1]

\* line 218: open(path, mode[0] + "b") truncates the file in the w modes
\* and keeps its content in the a modes.
OpenOutfile(d, m) ==
    [d EXCEPT !.content = IF m \in {"w", "wt", "wb"} THEN <<>> ELSE @,
              !.opens = @ + 1]

\* The constructor of a piped writer of class c, with its effects.
StartWriter(d, c, m, lvl, sinkOK, progOK) ==
    /\ LET r == WriterInit(c, m, lvl, sinkOK, progOK) IN
       /\ hist' = [NoHistory EXCEPT !.ctor = r.exc, !.opened = r.opened,
                                    !.spawned = r.spawned]
       /\ disk' = IF r.opened = 1 THEN OpenOutfile(d, m) ELSE d
       /\ IF r.exc = NoExc
          THEN /\ self' = [NoObject EXCEPT !.kind = "writer", !.cls = c,
                                           !.mode = m, !.file = "open",
                                           !.outfile = "open", !.level = lvl]
               /\ proc' = [NoProcess EXCEPT !.st = "running"]
          ELSE /\ self' = [NoObject EXCEPT !.kind = "failed", !.cls = c,
                                           !.mode = m, !.outfile = r.outfile,
                                           !.level = lvl]
               /\ proc' = NoProcess
    /\ call' = IdleCall
    /\ UNCHANGED <<x, many, race, cmd>>

\* The caller constructs a piped writer of class c.
ConstructWriter(c, m, lvl, sinkOK, progOK) ==
    /\ Fresh
    /\ StartWriter(disk, c, m, lvl, sinkOK, progOK)

(***************************************************************************)
(* The writer's child: it reads its stdin and ends with some exit status,  *)
(* at the end of its input or earlier.                                     *)
(***************************************************************************)
WriterChildReads ==
    /\ self.kind = "writer" /\ proc.st = "running" /\ proc.inpipe > 0
    /\ proc' = [proc EXCEPT !.inpipe = @ - 1, !.consumed = @ + 1]
    /\ UNCHANGED <<self, call, hist, x, disk, many, race, cmd>>

\* The command lines with "--no-name" missing from the one of gzip.
ProgramArgsNamed(c) ==
    CASE c = "PipedGzipWriter"       -> <<"gzip">>
      [] c = "PipedPigzWriter"       -> <<"pigz", "--no-name">>
      [] c = "PipedIGzipWriter"      -> <<"igzip", "--no-name">>
      [] c = "PipedPythonIsalWriter" -> <<"python", "-m", "isal.igzip", "--no-name">>
      [] c = "PipedPBzip2Writer"     -> <<"pbzip2">>
      [] c = "PipedXzWriter"         -> <<"xz">>
      [] c = "PipedZstdWriter"       -> <<"zstd">>
      [] OTHER                       -> <<"program">>

\* program_args as each writer class passes it to the base constructor
ProgramArgs(c) ==
    CASE c = "PipedGzipWriter"       -> <<"gzip", "--no-name">>
      [] c = "PipedPigzWriter"       -> <<"pigz", "--no-name">>
      [] c = "PipedIGzipWriter"      -> <<"igzip", "--no-name">>
      [] c = "PipedPythonIsalWriter" -> <<"python", "-m", "isal.igzip", "--no-name">>
      [] c = "PipedPBzip2Writer"     -> <<"pbzip2">>
      [] c = "PipedXzWriter"         -> <<"xz">>
      [] c = "PipedZstdWriter"       -> <<"zstd">>
      [] OTHER                       -> <<"program">>

\* The header of a gzip member: whether it holds a file name, and its
\* modification time (0, or the time of writing).
NoHeader == [name |-> FALSE, mtime |-> "none"]
GzipHeaderOf(named, mtime) == [name |-> named, mtime |-> mtime]

\* A gzip program that compresses its standard input has no name to store;
\* it stores the current time unless it is run with --no-name.
HeaderFromArgs(args) ==
    IF \E i \in 1..Len(args) : args[i] = "--no-name"
    THEN GzipHeaderOf(FALSE, "0") ELSE GzipHeaderOf(FALSE, "now")

\* _open_reproducible_gzip, lines 1115-1120: the keyword arguments of
\* igzip.IGzipFile and gzip.GzipFile
ReproducibleKwargs == [filename |-> "", mtime |-> "0"]

\* (I)GzipFile stores the name it is given unless it is empty, and the mtime.
HeaderFromKwargs(kwargs) == GzipHeaderOf(kwargs.filename # "", kwargs.mtime)

\* igzip_threaded.open as called at lines 1063-1073: with threads it writes
\* a fixed header, with threads == 0 it defers to igzip.open, which stores
\* the file name and the current time.
IgzipThreadedHeader(thr) ==
    IF thr = 0 THEN GzipHeaderOf(TRUE, "now") ELSE GzipHeaderOf(FALSE, "0")

\* The header of the members a stream writes, by the backend behind it.
HeaderOf(backend, thr) ==
    CASE backend \in {"PipedGzipWriter", "PipedPigzWriter", "PipedIGzipWriter",
                      "PipedPythonIsalWriter"} -> HeaderFromArgs(ProgramArgs(backend))
      [] backend \in {"igzip.IGzipFile", "gzip.GzipFile"} ->
            HeaderFromKwargs(ReproducibleKwargs)
      [] backend = "igzip_threaded" ->
            IgzipThreadedHeader(IF thr = None THEN 1 ELSE thr[1])
      [] OTHER -> NoHeader

\* What the child leaves in the file when it ends: one member holding what
\* it has consumed, complete if it ended well at the end of its input.
MemberOf(c, p, code, atEOF) ==
    [fmt |-> FormatOf(c), payload |-> p.consumed,
     complete |-> (code = 0 /\ atEOF /\ p.inpipe = 0),
     header |-> HeaderOf(c, None)]

WriterChildExits(code) ==
    /\ self.kind = "writer" /\ proc.st = "running"
    /\ proc' = [proc EXCEPT !.st = "exited", !.code = code,
                            !.afterStdinClosed = (self.file = "closed")]
    /\ disk' = [disk EXCEPT !.content =
                    Append(@, MemberOf(self.cls, proc, code, self.file = "closed"))]
    /\ UNCHANGED <<self, call, hist, x, many, race, cmd>>

(***************************************************************************)
(* PipedCompressionWriter.write: self._file.write(arg).  The data stays in *)
(* the buffer of self._file (flush = FALSE) or the buffer is written       *)
(* through to the pipe (flush = TRUE), which fails once the child is gone. *)
(***************************************************************************)
Write(flush) ==
    /\ self.kind = "writer" /\ call.pc = "idle" /\ hist.writes < MaxWrites
    /\ IF self.file = "closed"
       THEN /\ hist' = [hist EXCEPT !.probe = <<>>, !.writes = @ + 1,
                                    !.lastWrite = ValueErrorClosedFile]
            /\ UNCHANGED <<self, proc>>
       ELSE IF ~flush
       THEN /\ self' = [self EXCEPT !.wbuf = @ + 1]
            /\ hist' = [hist EXCEPT !.probe = <<>>, !.writes = @ + 1, !.lastWrite = NoExc,
                                    !.accepted = @ + 1]
            /\ proc' = proc
       ELSE IF proc.st = "exited"
       THEN /\ hist' = [hist EXCEPT !.probe = <<>>, !.writes = @ + 1,
                                    !.lastWrite = BrokenPipeError]
            /\ self' = [self EXCEPT !.wbuf = @ + 1]
            /\ proc' = proc
       ELSE /\ proc' = [proc EXCEPT !.inpipe = @ + self.wbuf + 1]
            /\ self' = [self EXCEPT !.wbuf = 0]
            /\ hist' = [hist EXCEPT !.probe = <<>>, !.writes = @ + 1, !.lastWrite = NoExc,
                                    !.accepted = @ + 1]
    /\ UNCHANGED <<call, x, disk, many, race, cmd>>

(***************************************************************************)
(* PipedCompressionWriter.__iter__ and __next__ (lines 305-311).  The last *)
(* of these calls since the previous write() or close() is recorded with   *)
(* what it returned or raised and with the object as it was at the call.   *)
(* The caller tries the two on a writer it has not written to, open or     *)
(* closed.                                                                 *)
(***************************************************************************)
UnsupportedOperation == [type |-> "UnsupportedOperation", about |-> "not readable"]

Probed(h, op, returned, exc, was) ==
    [h EXCEPT !.probe = <<[op |-> op, returned |-> returned, exc |-> exc,
                           was |-> was]>>]

\* A __next__ that hands the call to the pipe, as the reader's does: a
\* closed file says so, an open one is not readable.
DunderNextDelegating(s) ==
    [exc |-> IF s.file = "closed" THEN ValueErrorClosedFile
             ELSE UnsupportedOperation,
     self |-> s]

\* line 311: raise io.UnsupportedOperation("not readable")
DunderNext(s) == [exc |-> UnsupportedOperation, self |-> s]

\* line 308: return self
DunderIter(s) == [returned |-> "self", self |-> s]

Iter ==
    /\ self.kind = "writer" /\ call.pc = "idle" /\ hist.probe = <<>>
    /\ hist.writes = 0
    /\ LET r == DunderIter(self) IN
       /\ self' = r.self
       /\ hist' = Probed(hist, "iter", r.returned, NoExc, self)
    /\ UNCHANGED <<proc, call, x, disk, many, race, cmd>>

NextItem ==
    /\ self.kind = "writer" /\ call.pc = "idle" /\ hist.probe = <<>>
    /\ hist.writes = 0
    /\ LET r == DunderNext(self) IN
       /\ self' = r.self
       /\ hist' = Probed(hist, "next", "nothing", r.exc, self)
    /\ UNCHANGED <<proc, call, x, disk, many, race, cmd>>

(***************************************************************************)
(* PipedCompressionWriter.close, line by line.  A completed call is        *)
(* recorded with its exception, the exit status it read and the teardown   *)
(* work done on the stream up to its return.                               *)
(***************************************************************************)
CloseReturns(h, exc, rc) ==
    [h EXCEPT !.closeResults =
        Append(@, [exc |-> exc, retcode |-> rc, teardown |-> Teardown(h)])]

\* "if self.closed: return", in both classes
AlreadyClosed(s) == s.closed

\* A close() that forgets to set the flag.
MarkClosedForgets(s) == s

\* "self.closed = True", in both classes
MarkClosed(s) == [s EXCEPT !.closed = TRUE]

\* lines 284-285
WriterCloseEnter ==
    /\ self.kind = "writer" /\ call.pc = "idle" /\ hist.closeCalls < MaxCloses
    /\ IF AlreadyClosed(self)
       THEN /\ hist' = CloseReturns([hist EXCEPT !.probe = <<>>, !.closeCalls = @ + 1], NoExc, None)
            /\ call' = IdleCall
       ELSE /\ hist' = [hist EXCEPT !.probe = <<>>, !.closeCalls = @ + 1]
            /\ call' = [IdleCall EXCEPT !.pc = "w286"]
    /\ UNCHANGED <<self, proc, x, disk, many, race, cmd>>

\* line 286
WriterCloseMark ==
    /\ self.kind = "writer" /\ call.pc = "w286"
    /\ self' = MarkClosed(self)
    /\ call' = [call EXCEPT !.pc = "w287"]
    /\ UNCHANGED <<proc, hist, x, disk, many, race, cmd>>

\* A close of the pipe that throws the buffered data away.
FlushDropped(p, n) == p

\* The flush of n buffered chunks into the pipe to the child.
FlushInto(p, n) == [p EXCEPT !.inpipe = @ + n]

\* line 287: self._file.close() flushes the buffer into the pipe and closes
\* the write end.  With data left to flush and the child gone the flush
\* fails; the pipe is closed all the same and the error leaves close().
WriterCloseStdin ==
    /\ self.kind = "writer" /\ call.pc = "w287"
    /\ self' = [self EXCEPT !.file = "closed", !.wbuf = 0]
    /\ IF self.wbuf > 0 /\ proc.st = "exited"
       THEN /\ hist' = CloseReturns([hist EXCEPT !.stdinCloses = @ + 1],
                                    BrokenPipeError, None)
            /\ call' = IdleCall
            /\ proc' = proc
       ELSE /\ hist' = [hist EXCEPT !.stdinCloses = @ + 1]
            /\ call' = [call EXCEPT !.pc = "w288"]
            /\ proc' = FlushInto(proc, self.wbuf)
    /\ UNCHANGED <<x, disk, many, race, cmd>>

\* A close() that may wait for the child before it has closed the pipe.
WriterCloseWaitFirst ==
    /\ self.kind = "writer" /\ call.pc \in {"w287", "w288"}
    /\ proc.st = "exited"
    /\ proc' = [proc EXCEPT !.returncode = Some(proc.code)]
    /\ call' = [call EXCEPT !.pc = "w289", !.retcode = Some(proc.code)]
    /\ hist' = [hist EXCEPT !.waits = @ + 1]
    /\ UNCHANGED <<self, x, disk, many, race, cmd>>

\* line 288: retcode = self.process.wait() returns once the child has exited
WriterCloseWait ==
    /\ self.kind = "writer" /\ call.pc = "w288"
    /\ proc.st = "exited"
    /\ proc' = [proc EXCEPT !.returncode = Some(proc.code)]
    /\ call' = [call EXCEPT !.pc = "w289", !.retcode = Some(proc.code)]
    /\ hist' = [hist EXCEPT !.waits = @ + 1]
    /\ UNCHANGED <<self, x, disk, many, race, cmd>>

\* line 289
WriterCloseOutfile ==
    /\ self.kind = "writer" /\ call.pc = "w289"
    /\ self' = [self EXCEPT !.outfile = "closed"]
    /\ call' = [call EXCEPT !.pc = "w290"]
    /\ hist' = [hist EXCEPT !.outfileCloses = @ + 1]
    /\ UNCHANGED <<proc, x, disk, many, race, cmd>>

\* A close() that takes only positive exit statuses for failures.
WriterExitStatusPositive(retcode) ==
    IF retcode > 0 THEN OSErrorExitCode(retcode) ELSE NoExc

\* lines 290-303: the exception for the exit status that wait() returned
WriterExitStatus(retcode) ==
    IF retcode # 0 THEN OSErrorExitCode(retcode) ELSE NoExc

WriterCloseInterpret ==
    /\ self.kind = "writer" /\ call.pc = "w290"
    /\ hist' = CloseReturns(hist, WriterExitStatus(call.retcode[1]), call.retcode)
    /\ call' = IdleCall
    /\ UNCHANGED <<self, proc, x, disk, many, race, cmd>>

(***************************************************************************)
(* PipedCompressionReader.                                                 *)
(***************************************************************************)
Platforms == {"posix", "win32"}

\* What a child can have written to its stderr, as a sequence of pieces.
ControlC == "Control-C or similar caught [sig=15], quitting..."
StderrTexts == {<<>>, <<ControlC>>, <<ControlC, "more">>, <<"error">>}

\* bytes.startswith
StartsWith(text, prefix) ==
    /\ Len(prefix) <= Len(text)
    /\ \A i \in 1..Len(prefix) : text[i] = prefix[i]

\* Every reader class with the allowed exit code of the base class.
AllowedExitCodeEverywhere(c) == Some(-SIGTERM)

\* class attribute _allowed_exit_code
AllowedExitCode(c) ==
    IF c = "PipedPBzip2Reader" THEN None ELSE Some(-SIGTERM)

\* class attribute _allowed_exit_message
AllowedExitMessage(c) ==
    IF c = "PipedPBzip2Reader" THEN Some(<<ControlC>>) ELSE None

\* What _can_read_concatenated_gz("igzip") returned to the constructor of
\* PipedIGzipReader (line 775), if the program could be run.
ProbeResult(c, progOK, probeOK) ==
    IF c = "PipedIGzipReader" /\ progOK THEN Some(probeOK) ELSE None

\* Constructors without the probe: every class goes straight to the base
\* class.
ReaderInitUnprobed(c, m, progOK, probeOK) ==
    IF m \notin ReaderModes THEN [exc |-> ValueErrorMode(m), spawned |-> 0]
    ELSE IF ~progOK THEN [exc |-> OSErrorSpawn, spawned |-> 0]
    ELSE [exc |-> NoExc, spawned |-> 1]

\* The constructors up to and including Popen: PipedIGzipReader first runs
\* the probe _can_read_concatenated_gz in a child of its own, then the base
\* class validates the mode and spawns the program.
ReaderInit(c, m, progOK, probeOK) ==
    IF c = "PipedIGzipReader" /\ ~progOK
    THEN [exc |-> OSErrorSpawn, spawned |-> 0]
    ELSE IF c = "PipedIGzipReader" /\ ~probeOK
    THEN [exc |-> [type |-> "ValueError", about |-> "concatenated"], spawned |-> 1]
    ELSE IF m \notin ReaderModes
    THEN [exc |-> ValueErrorMode(m),
          spawned |-> IF c = "PipedIGzipReader" THEN 1 ELSE 0]
    ELSE IF ~progOK
    THEN [exc |-> OSErrorSpawn, spawned |-> 0]
    ELSE [exc |-> NoExc, spawned |-> IF c = "PipedIGzipReader" THEN 2 ELSE 1]

\* _can_read_concatenated_gz (lines 136-157) as PipedIGzipReader calls it
\* at line 775: every call writes the temporary file and runs the program
\* on it, if the program can be run at all.  probeRuns counts these runs
\* over the streams the caller opens one after the other.
ProbeRuns(c, progOK) == IF c = "PipedIGzipReader" /\ progOK THEN 1 ELSE 0

\* lines 340-374 (and 775-786 for PipedIGzipReader).  src is what the child
\* will find in the file: None for any program on any file, else the
\* number of chunks it decompresses from a good file.
StartReader(c, m, plat, progOK, probeOK, src) ==
    /\ LET r == ReaderInit(c, m, progOK, probeOK) IN
       /\ IF r.exc = NoExc
          THEN /\ self' = [NoObject EXCEPT !.kind = "constructing", !.cls = c,
                                           !.mode = m, !.file = "open",
                                           !.platform = plat]
               /\ proc' = [NoProcess EXCEPT !.st = "running", !.stdout = "open",
                                            !.stderr = "open", !.source = src]
               /\ call' = [IdleCall EXCEPT !.pc = "r421"]
               /\ hist' = [NoHistory EXCEPT !.spawned = r.spawned,
                       !.probeRuns = hist.probeRuns + ProbeRuns(c, progOK),
                       !.concat = ProbeResult(c, progOK, probeOK)]
          ELSE /\ self' = [NoObject EXCEPT !.kind = "failed", !.cls = c,
                                           !.mode = m, !.platform = plat]
               /\ hist' = [NoHistory EXCEPT !.ctor = r.exc, !.spawned = r.spawned,
                       !.probeRuns = hist.probeRuns + ProbeRuns(c, progOK),
                       !.concat = ProbeResult(c, progOK, probeOK)]
               /\ proc' = NoProcess
               /\ call' = IdleCall
    /\ UNCHANGED <<x, many, race, cmd>>

ConstructReader(c, m, plat, progOK, probeOK) ==
    /\ Fresh
    /\ StartReader(c, m, plat, progOK, probeOK, None)
    /\ UNCHANGED disk

IsReader == self.kind \in {"constructing", "reader", "failed"} /\ proc.st # "none"
              /\ self.cls \in ReaderClasses

(***************************************************************************)
(* The reader's child: it writes decompressed output, may write to its     *)
(* stderr, closes its stdout and exits with some status.                   *)
(***************************************************************************)
ReaderChildOutputs ==
    /\ IsReader /\ proc.st = "running" /\ proc.stdout = "open"
    /\ proc.produced < (IF proc.source = None THEN MaxOutput ELSE proc.source[1])
    /\ proc' = [proc EXCEPT !.outpipe = @ + 1, !.produced = @ + 1]
    /\ UNCHANGED <<self, call, hist, x, disk, many, race, cmd>>

ReaderChildComplains(text) ==
    /\ IsReader /\ proc.st = "running" /\ proc.errText = <<>> /\ text # <<>>
    /\ IF proc.source = None THEN TRUE ELSE proc.signalled
    /\ proc' = [proc EXCEPT !.errText = text]
    /\ UNCHANGED <<self, call, hist, x, disk, many, race, cmd>>

\* The child is done writing: the read end of its stdout sees end of file
\* once the pipe is drained, a moment before the process is gone.
ReaderChildClosesStdout ==
    /\ IsReader /\ proc.st = "running" /\ proc.stdout = "open"
    /\ IF proc.source = None THEN TRUE ELSE proc.produced = proc.source[1]
    /\ proc' = [proc EXCEPT !.stdout = "eof"]
    /\ UNCHANGED <<self, call, hist, x, disk, many, race, cmd>>

\* A child at work on a good file ends with status 0 when it has written
\* all of it, unless it is signalled before.
ReaderChildExits(code) ==
    /\ IsReader /\ proc.st = "running"
    /\ IF proc.source = None \/ proc.signalled THEN TRUE
       ELSE code = 0 /\ proc.produced = proc.source[1]
    /\ proc' = [proc EXCEPT !.st = "exited", !.code = code,
                            !.stdout = IF @ = "open" THEN "eof" ELSE @]
    /\ UNCHANGED <<self, call, hist, x, disk, many, race, cmd>>

\* line 361: Popen(program_args, stdout=PIPE, stderr=PIPE).  Nothing reads
\* the stderr pipe before close() or a failing _raise_if_error, so a child
\* that writes more to its stderr than the pipe holds is stopped in that
\* write.
ReaderChildBlocksOnStderr ==
    /\ IsReader /\ proc.st = "running" /\ proc.stdout = "open"
    /\ proc.source = None /\ proc.errText = <<>> /\ ~proc.signalled
    /\ proc' = [proc EXCEPT !.st = "blocked", !.errText = <<"error", "more">>]
    /\ UNCHANGED <<self, call, hist, x, disk, many, race, cmd>>

\* The signal of terminate() ends a child that is stopped in a write.
ReaderChildKilled ==
    /\ IsReader /\ proc.st = "blocked" /\ proc.signalled
    /\ proc' = [proc EXCEPT !.st = "exited", !.code = -SIGTERM, !.stdout = "eof"]
    /\ UNCHANGED <<self, call, hist, x, disk, many, race, cmd>>

(***************************************************************************)
(* _raise_if_error (lines 426-465) as a function of the platform, the      *)
(* class, what poll() returns, the two arguments, and the state and        *)
(* content of the child's stderr pipe.                                     *)
(***************************************************************************)
RaiseIfError(plat, c, retcode, check, stderr_message, stderrSt, errText) ==
    IF plat = "win32" /\ retcode = Some(1) /\ stderr_message = <<>> THEN NoExc
    ELSE IF retcode = None THEN NoExc
    ELSE IF retcode[1] = 0 THEN NoExc
    ELSE IF check /\ retcode = AllowedExitCode(c) THEN NoExc
    ELSE IF /\ check
            /\ AllowedExitMessage(c) # None
            /\ StartsWith(stderr_message, AllowedExitMessage(c)[1])
    THEN NoExc
    ELSE IF stderr_message # <<>> THEN OSErrorStderr(stderr_message, retcode[1])
    ELSE IF stderrSt = "closed"
    THEN [type |-> "ValueError", about |-> "read of closed file"]
    ELSE OSErrorStderr(errText, retcode[1])

\* Popen.poll(): the exit status if the child has exited, else None
Poll(p) == IF p.st = "exited" THEN Some(p.code) ELSE None

(***************************************************************************)
(* _wait_for_output_or_process_exit (lines 420-424) and the _raise_if_error*)
(* call that ends the constructor (line 376).                              *)
(***************************************************************************)
\* line 421: peek(1) returns with data, or empty at end of file
ReaderWaitPeek ==
    /\ self.kind = "constructing" /\ call.pc = "r421"
    /\ proc.outpipe > 0 \/ proc.stdout = "eof"
    /\ call' = [call EXCEPT !.pc = IF proc.outpipe > 0 THEN "r376" ELSE "r422"]
    /\ UNCHANGED <<self, proc, hist, x, disk, many, race, cmd>>

\* A loop that goes on to peek whatever poll() returns.
ReaderWaitPollUnheeded ==
    /\ self.kind = "constructing" /\ call.pc = "r422"
    /\ proc' = [proc EXCEPT !.returncode = Poll(proc)]
    /\ call' = [call EXCEPT !.pc = "r421"]
    /\ UNCHANGED <<self, hist, x, disk, many, race, cmd>>

\* lines 422-424: no output; leave the loop if the child has exited, else
\* sleep and peek again
ReaderWaitPoll ==
    /\ self.kind = "constructing" /\ call.pc = "r422"
    /\ proc' = [proc EXCEPT !.returncode = Poll(proc)]
    /\ call' = [call EXCEPT !.pc = IF Poll(proc) # None THEN "r376" ELSE "r421"]
    /\ UNCHANGED <<self, hist, x, disk, many, race, cmd>>

\* line 376: self._raise_if_error() with the default arguments.  If it
\* raises it has read stderr to its end and closed self._file.
ReaderInitCheck ==
    /\ self.kind = "constructing" /\ call.pc = "r376"
    /\ LET e == RaiseIfError(self.platform, self.cls, Poll(proc), FALSE, <<>>,
                             proc.stderr, proc.errText) IN
       /\ hist' = [hist EXCEPT !.ctor = e]
       /\ self' = IF e = NoExc
                  THEN [self EXCEPT !.kind = "reader"]
                  ELSE [self EXCEPT !.kind = "failed", !.file = "closed"]
       /\ proc' = [proc EXCEPT !.returncode = Poll(proc)]
       /\ call' = IdleCall
    /\ UNCHANGED <<x, disk, many, race, cmd>>

\* read(): one chunk from the pipe, or nothing at end of file
Read ==
    /\ self.kind = "reader" /\ call.pc = "idle" /\ self.file = "open"
    /\ proc.outpipe > 0
    /\ proc' = [proc EXCEPT !.outpipe = @ - 1]
    /\ hist' = [hist EXCEPT !.got = @ + 1]
    /\ UNCHANGED <<self, call, x, disk, many, race, cmd>>

\* read() with no size (lines 467-468) and the iteration over the lines
\* (lines 401-405): self._file.read() and self._file.__next__() return what
\* the pipe delivers, up to its end, and look at nothing else.
ReadToEOF ==
    /\ self.kind = "reader" /\ call.pc = "idle" /\ self.file = "open"
    /\ hist.eofReads = <<>>
    /\ proc.stdout = "eof"
    /\ proc' = [proc EXCEPT !.outpipe = 0]
    /\ hist' = [hist EXCEPT !.got = @ + proc.outpipe,
                            !.eofReads = Append(@, NoExc)]
    /\ UNCHANGED <<self, call, x, disk, many, race, cmd>>

(***************************************************************************)
(* PipedCompressionReader.close, line by line.                             *)
(***************************************************************************)
\* lines 388-389
ReaderCloseEnter ==
    /\ self.kind = "reader" /\ call.pc = "idle" /\ hist.closeCalls < MaxCloses
    /\ IF AlreadyClosed(self)
       THEN /\ hist' = CloseReturns([hist EXCEPT !.closeCalls = @ + 1], NoExc, None)
            /\ call' = IdleCall
       ELSE /\ hist' = [hist EXCEPT !.closeCalls = @ + 1]
            /\ call' = [IdleCall EXCEPT !.pc = "r390"]
    /\ UNCHANGED <<self, proc, x, disk, many, race, cmd>>

\* line 390
ReaderCloseMark ==
    /\ self.kind = "reader" /\ call.pc = "r390"
    /\ self' = MarkClosed(self)
    /\ call' = [call EXCEPT !.pc = "r391"]
    /\ UNCHANGED <<proc, hist, x, disk, many, race, cmd>>

\* lines 391-393: retcode = self.process.poll()
ReaderClosePoll ==
    /\ self.kind = "reader" /\ call.pc = "r391"
    /\ proc' = [proc EXCEPT !.returncode = Poll(proc)]
    /\ call' = [call EXCEPT !.retcode = Poll(proc), !.check = FALSE,
                            !.pc = IF Poll(proc) = None THEN "r395" ELSE "r397"]
    /\ hist' = [hist EXCEPT !.polls = @ + 1]
    /\ UNCHANGED <<self, x, disk, many, race, cmd>>

\* lines 395-396: self.process.terminate() signals the child unless it has
\* exited in the meantime; check_allowed_code_and_message = True
ReaderCloseTerminate ==
    /\ self.kind = "reader" /\ call.pc = "r395"
    /\ proc' = IF proc.st \in {"running", "blocked"}
               THEN [proc EXCEPT !.signalled = TRUE]
               ELSE [proc EXCEPT !.returncode = Poll(proc)]
    /\ call' = [call EXCEPT !.check = TRUE, !.pc = "r397"]
    /\ hist' = [hist EXCEPT !.terminates = @ + 1]
    /\ UNCHANGED <<self, x, disk, many, race, cmd>>

\* A close() that takes what the pipes hold and does not wait for the child.
ReaderCloseCommunicateNoWait ==
    /\ self.kind = "reader" /\ call.pc = "r397"
    /\ proc' = [proc EXCEPT !.returncode = Poll(proc), !.outpipe = 0,
                            !.stdout = "closed", !.stderr = "closed"]
    /\ call' = [call EXCEPT !.stderr_message = proc.errText, !.pc = "r398"]
    /\ hist' = [hist EXCEPT !.communicates = @ + 1]
    /\ UNCHANGED <<self, x, disk, many, race, cmd>>

\* line 397: communicate() reads stdout and stderr to their end, closes
\* both pipes and waits for the child
ReaderCloseCommunicate ==
    /\ self.kind = "reader" /\ call.pc = "r397"
    /\ proc.st = "exited"
    /\ proc' = [proc EXCEPT !.returncode = Some(proc.code), !.outpipe = 0,
                            !.stdout = "closed", !.stderr = "closed"]
    /\ call' = [call EXCEPT !.stderr_message = proc.errText, !.pc = "r398"]
    /\ hist' = [hist EXCEPT !.communicates = @ + 1]
    /\ UNCHANGED <<self, x, disk, many, race, cmd>>

\* line 398
ReaderCloseFile ==
    /\ self.kind = "reader" /\ call.pc = "r398"
    /\ self' = [self EXCEPT !.file = "closed"]
    /\ call' = [call EXCEPT !.pc = "r399"]
    /\ hist' = [hist EXCEPT !.fileCloses = @ + 1]
    /\ UNCHANGED <<proc, x, disk, many, race, cmd>>

\* A close() that clears the flag again when it raises.
ReaderCloseInterpretUnmarks ==
    /\ self.kind = "reader" /\ call.pc = "r399"
    /\ LET e == RaiseIfError(self.platform, self.cls, Poll(proc), call.check,
                             call.stderr_message, proc.stderr, proc.errText) IN
       /\ hist' = CloseReturns(hist, e, Poll(proc))
       /\ self' = IF e = NoExc THEN self ELSE [self EXCEPT !.closed = FALSE]
    /\ call' = IdleCall
    /\ UNCHANGED <<proc, x, disk, many, race, cmd>>

\* line 399
ReaderCloseInterpret ==
    /\ self.kind = "reader" /\ call.pc = "r399"
    /\ hist' = CloseReturns(hist,
                  RaiseIfError(self.platform, self.cls, Poll(proc), call.check,
                               call.stderr_message, proc.stderr, proc.errText),
                  Poll(proc))
    /\ call' = IdleCall
    /\ UNCHANGED <<self, proc, x, disk, many, race, cmd>>

(***************************************************************************)
(* xopen(): arguments and environment of one call.                         *)
(***************************************************************************)
XNames == {"-", "f", "f.gz", "f.bz2", "f.xz", "f.zst"}
XModes == {"r", "rb", "w", "wb", "a", "ab", "hallo"}
XFormats == {"None", "gz", "xz", "bz2", "zst", "tar"}
XThreads == {None, Some(0), Some(2)}
XLevels == {None} \cup {Some(l) : l \in {0, 3, 4, 10, 11, 20}}
\* The path: a good regular file (or creatable destination), a regular file
\* with damaged content, a path that cannot be opened (missing file,
\* missing directory, no permission), or a named pipe.
PathStates == {"ok", "corrupt", "unopenable", "fifo"}
Magics == {"None", "gz", "bz2", "xz", "zst"}

\* lines 1274-1275
NormalizeMode(m) == IF m \in {"r", "w", "a"}
                    THEN CASE m = "r" -> "rt" [] m = "w" -> "wt" [] m = "a" -> "at"
                    ELSE m

XValidModes == {"rt", "rb", "wt", "wb", "at", "ab"}
\* The text arguments (encoding, errors, newline) of a call: fine, or an
\* unknown encoding, or an illegal newline.
TextArgs == {"ok", "encoding", "newline"}
HasT(m) == m \in {"rt", "wt", "at"}

\* What io.TextIOWrapper raises for them.
TextError(text) ==
    [type |-> IF text = "encoding" THEN "LookupError" ELSE "ValueError",
     about |-> text]
TextRejected(m, text) == HasT(m) /\ text # "ok"

HasR(m) == m \in {"rt", "rb"}
HasW(m) == m \in {"wt", "wb"}

\* _detect_format_from_extension
DetectFormatFromExtension(name) ==
    CASE name = "f.bz2" -> "bz2"
      [] name = "f.xz"  -> "xz"
      [] name = "f.gz"  -> "gz"
      [] name = "f.zst" -> "zst"
      [] OTHER          -> "None"

\* _detect_format_from_content: only a regular file is opened and its first
\* bytes (magic) compared; any OSError gives None.
SniffOpens(path) == path \in {"ok", "corrupt"}
DetectFormatFromContent(path, magic) == IF SniffOpens(path) THEN magic ELSE "None"

StreamOf(backend, piped) == [kind |-> "stream", backend |-> backend,
                             piped |-> piped, closefd |-> TRUE, fd |-> "file",
                             closed |-> FALSE]
ErrorOf(exc) == [kind |-> "error", exc |-> exc]

\* Returning a stream that owns the descriptor of sys.stdin or sys.stdout.
OpenStdinOrOutOwning(m) ==
    IF m \in {"rt", "rb"}
    THEN [StreamOf("stdio", FALSE) EXCEPT !.fd = "stdin"]
    ELSE IF m \in {"wt", "wb"}
    THEN [StreamOf("stdio", FALSE) EXCEPT !.fd = "stdout"]
    ELSE ErrorOf([type |-> "KeyError", about |-> "a"])

\* _open_stdin_or_out: open(std.fileno(), mode=mode, closefd=False)
OpenStdinOrOut(m) ==
    IF m \in {"rt", "rb"}
    THEN [StreamOf("stdio", FALSE) EXCEPT !.closefd = FALSE, !.fd = "stdin"]
    ELSE IF m \in {"wt", "wb"}
    THEN [StreamOf("stdio", FALSE) EXCEPT !.closefd = FALSE, !.fd = "stdout"]
    ELSE ErrorOf([type |-> "KeyError", about |-> "a"])

\* One attempt to open a backend: its name, the exception it ended with,
\* the children it started, how often the path was opened (by this process
\* or by a child that was given the path), and children still running.
Attempt(cand, exc, spawned, opened, running) ==
    [cand |-> cand, exc |-> exc, spawned |-> spawned, opened |-> opened,
     running |-> running]

XLog(xx, att) == [xx EXCEPT !.log = Append(@, att),
                            !.spawned = @ + att.spawned,
                            !.opened = @ + att.opened,
                            !.running = @ + att.running]
XFinish(xx, res) == [xx EXCEPT !.pc = "done", !.result = res]

\* lines 1274-1312: validation, the "-" case, the choice of the format and
\* the dispatch to the opener of that format.
XBegin(name, m, lvl, thr, fmt, path, magic, plat) ==
    LET mode == NormalizeMode(m)
        byName == IF fmt # "None" THEN fmt ELSE DetectFormatFromExtension(name)
        sniff == byName = "None" /\ ~HasW(mode)
        detected == IF sniff THEN DetectFormatFromContent(path, magic) ELSE byName
        x0 == [pc |-> "start", std |-> x.std, name |-> name, mode |-> mode,
               compresslevel |-> lvl, threads |-> thr, format |-> fmt,
               path |-> path, platform |-> plat,
               magic |-> IF sniff /\ SniffOpens(path) THEN magic ELSE "unread",
               detected |-> "None", isal |-> FALSE, zstandard |-> FALSE,
               log |-> <<>>, spawned |-> 0, opened |-> 0, running |-> 0,
               sniffs |-> 0, closes |-> 0, result |-> [kind |-> "none"],
               concat |-> None, binary_file |-> "none", text |-> "ok",
               data |-> "unwritten", read |-> [kind |-> "none"]]
    IN  IF mode \notin XValidModes
        THEN XFinish(x0, ErrorOf([type |-> "ValueError", about |-> "mode"]))
        ELSE IF name = "-"
        THEN XFinish(x0, OpenStdinOrOut(mode))
        ELSE IF fmt \notin {"None", "gz", "xz", "bz2", "zst"}
        THEN XFinish(x0, ErrorOf([type |-> "ValueError", about |-> "format"]))
        ELSE [x0 EXCEPT !.detected = detected,
                        !.sniffs = IF sniff /\ SniffOpens(path) THEN 1 ELSE 0,
                        !.opened = IF sniff /\ SniffOpens(path) THEN 1 ELSE 0,
                        !.pc = CASE detected = "gz"  -> "gz_threaded"
                                 [] detected = "xz"  -> "xz_piped"
                                 [] detected = "bz2" -> "bz2_piped"
                                 [] detected = "zst" -> "zst_piped"
                                 [] OTHER            -> "plain"]

\* A call of xopen().  The magic bytes are an input only where the call
\* reads them.
XopenCall(name, m, lvl, thr, fmt, path, magic, plat) ==
    /\ Fresh
    /\ LET mode == NormalizeMode(m)
           byName == IF fmt # "None" THEN fmt ELSE DetectFormatFromExtension(name)
       IN  magic # "None" => (byName = "None" /\ ~HasW(mode) /\ SniffOpens(path))
    /\ x' = XBegin(name, m, lvl, thr, fmt, path, magic, plat)
    /\ UNCHANGED <<self, proc, call, hist, disk, many, race, cmd>>

\* A call of xopen() in text mode with text arguments that io.TextIOWrapper
\* rejects (lines 1286-1312 hand them to the opener of the format).
XopenCallText(name, m, lvl, thr, fmt, path, magic, plat, text) ==
    /\ Fresh
    /\ text # "ok" /\ HasT(NormalizeMode(m))
    /\ LET mode == NormalizeMode(m)
           byName == IF fmt # "None" THEN fmt ELSE DetectFormatFromExtension(name)
       IN  magic # "None" => (byName = "None" /\ ~HasW(mode) /\ SniffOpens(path))
    /\ XBegin(name, m, lvl, thr, fmt, path, magic, plat).pc # "done"
    /\ x' = [XBegin(name, m, lvl, thr, fmt, path, magic, plat) EXCEPT !.text = text]
    /\ UNCHANGED <<self, proc, call, hist, disk, many, race, cmd>>

(***************************************************************************)
(* The candidates of the ladder.  What the system answers to an attempt is *)
(* an input of the step: whether the program can be spawned (progOK),      *)
(* whether igzip passes the probe (probeOK), and how a reading child       *)
(* fares with the file (childExit: None while it runs and delivers output, *)
(* else its exit status before any output).                                *)
(***************************************************************************)
SinkOK(xx) == xx.path # "unopenable"

\* A tool cannot decompress a file it cannot open, and a good file makes no
\* tool fail; what comes through a named pipe may be damaged like the
\* content of a file.
ChildOutcomes(path) ==
    CASE path = "unopenable" -> {Some(1), Some(5)}
      [] path \in {"corrupt", "fifo"} -> {None, Some(0), Some(1), Some(5)}
      [] OTHER               -> {None, Some(0)}

\* A piped reader constructor from Popen to its return (lines 361-376); the
\* text wrapper is built after Popen (lines 367-370) and before the wait for
\* output.
ReaderAttempt(c, m, plat, progOK, probeOK, childExit, text) ==
    LET r == ReaderInit(c, m, progOK, probeOK)
        e == RaiseIfError(plat, c, childExit, FALSE, <<>>, "open", <<"error">>)
    IN  IF r.exc # NoExc
        THEN Attempt(c, r.exc, r.spawned, 0, 0)
        ELSE IF TextRejected(m, text)
        THEN Attempt(c, TextError(text), r.spawned, 1,
                     IF childExit = None THEN 1 ELSE 0)
        ELSE Attempt(c, e, r.spawned, 1,
                     IF e = NoExc /\ childExit = None THEN 1 ELSE 0)

\* A piped writer constructor; the text wrapper is built after Popen (lines
\* 238-241), where the child waits for its input.
WriterAttempt(c, m, lvl, sinkOK, progOK, text) ==
    LET r == WriterInit(c, m, lvl, sinkOK, progOK)
    IN  IF r.exc = NoExc /\ TextRejected(m, text)
        THEN Attempt(c, TextError(text), r.spawned, r.opened, r.spawned)
        ELSE Attempt(c, r.exc, r.spawned, r.opened, r.spawned)

\* An in-process backend wraps the stream it has opened.
TextWrapped(att, m, text) ==
    IF att.exc = NoExc /\ TextRejected(m, text)
    THEN [att EXCEPT !.exc = TextError(text)]
    ELSE att

\* Levels the in-process encoders accept: python-isal, zlib (gzip.GzipFile,
\* with -1 for the default), lzma presets.
IsalLevels == 0..3
ZlibLevels == (-1)..9
LzmaPresets == 0..9

ValueErrorNative == [type |-> "ValueError", about |-> "compresslevel",
                     msg |-> <<"Invalid initialization option", "">>]

\* igzip_threaded.open (lines 1065-1073).  levelFirst: whether the library
\* looks at the level before it opens the file.
IgzipThreadedOpen(m, lvl, sinkOK, levelFirst) ==
    LET badLevel == ~HasR(m) /\ lvl # None /\ lvl[1] \notin IsalLevels
        verr == Attempt("igzip_threaded", ValueErrorNative, 0, 0, 0)
    IN  IF badLevel /\ (levelFirst \/ sinkOK) THEN verr
        ELSE IF ~sinkOK THEN Attempt("igzip_threaded", OSErrorOpen, 0, 0, 0)
        ELSE Attempt("igzip_threaded", NoExc, 0, 1, 0)

\* _open_reproducible_gzip (lines 1104-1144)
OpenReproducibleGzip(lvl, isal, sinkOK) ==
    IF ~sinkOK THEN Attempt("gzip.GzipFile", OSErrorOpen, 0, 0, 0)
    ELSE IF isal /\ (lvl = None \/ lvl[1] \in IsalLevels)
    THEN Attempt("igzip.IGzipFile", NoExc, 0, 1, 0)
    ELSE IF lvl = None \/ lvl[1] \in ZlibLevels
    THEN Attempt("gzip.GzipFile", NoExc, 0, 1, 0)
    ELSE Attempt("gzip.GzipFile", ValueErrorNative, 0, 1, 0)

\* The file that _open_reproducible_gzip opened at line 1114, when the
\* function is left: it is handed to the encoder (line 1143), and no
\* statement closes it where the encoder's constructor raises (lines
\* 1134-1139 are outside any try).
BinaryFileLeft(att) == IF att.opened = 0 THEN "none" ELSE "open"

\* An in-process open of the path for reading (igzip.open, gzip.open,
\* bz2.open, lzma.open, zstandard.open, open).
NativeOpen(backend, sinkOK) ==
    IF sinkOK THEN Attempt(backend, NoExc, 0, 1, 0)
    ELSE Attempt(backend, OSErrorOpen, 0, 0, 0)

\* A ladder that ignores threads == 0.
ThreadsIgnored(thr) == TRUE

\* "if threads != 0": the external programs are tried
ThreadsNonzero(thr) == thr # Some(0)

\* The except clauses of _open_external_gzip_reader/_writer and of _open_gz.
CaughtAfterIGzip(exc) == exc.type \in {"OSError", "ValueError"}
\* A ladder that lets the failure of pigz reach the caller.
CaughtAfterPigzNothing(exc) == FALSE

\* line 1036 and line 1053: "except OSError" around the pigz constructor
CaughtAfterPigz(exc) == exc.type = "OSError"
CaughtByOpenGzNothing(exc) == FALSE
CaughtByOpenGz(exc) == exc.type = "OSError"
CaughtAfterThreaded(exc) == exc.type = "ValueError"

\* A step that tries the same candidate again when its exception is caught.
XStepRetrying(att, piped, caught, next) ==
    LET x1 == XLog(x, att) IN
    IF att.exc = NoExc THEN XFinish(x1, StreamOf(att.cand, piped))
    ELSE IF caught THEN x1
    ELSE XFinish(x1, ErrorOf(att.exc))

\* The step of a candidate: the stream if it opened, the next position if
\* its exception is caught, else the exception reaches the caller.
XStep(att, piped, caught, next) ==
    LET x1 == XLog(x, att) IN
    IF att.exc = NoExc THEN XFinish(x1, StreamOf(att.cand, piped))
    ELSE IF caught THEN [x1 EXCEPT !.pc = next]
    ELSE XFinish(x1, ErrorOf(att.exc))

XFrame == UNCHANGED <<self, proc, call, hist, many, race, cmd>>

\* _open_gz, lines 1063-1076: the igzip_threaded library if it is installed
XGzThreaded(isal, levelFirst) ==
    /\ x.pc = "gz_threaded"
    /\ LET x1 == [x EXCEPT !.isal = isal]
           next == IF ThreadsNonzero(x.threads) THEN "gz_igzip" ELSE "gz_native"
           att == TextWrapped(IgzipThreadedOpen(x.mode, x.compresslevel,
                                                SinkOK(x), levelFirst),
                              x.mode, x.text)
       IN  IF isal /\ ThreadsNonzero(x.threads)
           THEN x' = [XStep(att, FALSE, CaughtAfterThreaded(att.exc), next)
                        EXCEPT !.isal = isal]
           ELSE x' = [x1 EXCEPT !.pc = next]
    /\ XFrame /\ UNCHANGED disk

\* _open_external_gzip_reader/_writer: igzip
XGzIGzip(progOK, probeOK, childExit) ==
    /\ x.pc = "gz_igzip"
    /\ childExit \in ChildOutcomes(x.path)
    /\ LET att == IF HasR(x.mode)
                  THEN ReaderAttempt("PipedIGzipReader", x.mode, x.platform,
                                     progOK, probeOK, childExit, x.text)
                  ELSE WriterAttempt("PipedIGzipWriter", x.mode, x.compresslevel,
                                     SinkOK(x), progOK, x.text)
       IN  x' = [XStep(att, TRUE, CaughtAfterIGzip(att.exc), "gz_pigz") EXCEPT
                   !.concat = IF HasR(x.mode)
                              THEN ProbeResult("PipedIGzipReader", progOK, probeOK)
                              ELSE None]
    /\ XFrame /\ UNCHANGED disk

\* pigz
XGzPigz(progOK, childExit) ==
    /\ x.pc = "gz_pigz"
    /\ childExit \in ChildOutcomes(x.path)
    /\ LET att == IF HasR(x.mode)
                  THEN ReaderAttempt("PipedPigzReader", x.mode, x.platform,
                                     progOK, TRUE, childExit, x.text)
                  ELSE WriterAttempt("PipedPigzWriter", x.mode, x.compresslevel,
                                     SinkOK(x), progOK, x.text)
       IN  x' = XStep(att, TRUE, CaughtAfterPigz(att.exc), "gz_gzip")
    /\ XFrame /\ UNCHANGED disk

\* gzip, the last external candidate; its OSError is caught in _open_gz
XGzGzip(progOK, childExit) ==
    /\ x.pc = "gz_gzip"
    /\ childExit \in ChildOutcomes(x.path)
    /\ LET att == IF HasR(x.mode)
                  THEN ReaderAttempt("PipedGzipReader", x.mode, x.platform,
                                     progOK, TRUE, childExit, x.text)
                  ELSE WriterAttempt("PipedGzipWriter", x.mode, x.compresslevel,
                                     SinkOK(x), progOK, x.text)
       IN  x' = XStep(att, TRUE, CaughtByOpenGz(att.exc), "gz_native")
    /\ XFrame /\ UNCHANGED disk

\* _open_gz, lines 1089-1101: without a subprocess
XGzNative ==
    /\ x.pc = "gz_native"
    /\ LET opn == IF HasR(x.mode)
                  THEN NativeOpen(IF x.isal THEN "igzip.open" ELSE "gzip.open",
                                  SinkOK(x))
                  ELSE OpenReproducibleGzip(x.compresslevel, x.isal, SinkOK(x))
           att == TextWrapped(opn, x.mode, x.text)
       IN  x' = [XStep(att, FALSE, FALSE, "done") EXCEPT
                    !.binary_file = IF HasR(x.mode) THEN "none"
                                    ELSE BinaryFileLeft(att)]
    /\ XFrame /\ UNCHANGED disk

\* _open_bz2, lines 941-948: pbzip2 unless threads == 0
XBz2Piped(progOK, childExit) ==
    /\ x.pc = "bz2_piped"
    /\ childExit \in ChildOutcomes(x.path)
    /\ LET att == IF HasR(x.mode)
                  THEN ReaderAttempt("PipedPBzip2Reader", x.mode, x.platform,
                                     progOK, TRUE, childExit, x.text)
                  ELSE WriterAttempt("PipedPBzip2Writer", x.mode, Some(9),
                                     SinkOK(x), progOK, x.text)
       IN  x' = IF ThreadsNonzero(x.threads)
                THEN XStep(att, TRUE, att.exc.type = "OSError", "bz2_native")
                ELSE [x EXCEPT !.pc = "bz2_native"]
    /\ XFrame /\ UNCHANGED disk

\* line 950: bz2.open
XBz2Native ==
    /\ x.pc = "bz2_native"
    /\ x' = XStep(TextWrapped(NativeOpen("bz2.open", SinkOK(x)), x.mode, x.text),
                  FALSE, FALSE, "done")
    /\ XFrame /\ UNCHANGED disk

\* _open_xz, lines 960-961: the default level
XzLevel(lvl) == IF lvl = None THEN Some(6) ELSE lvl

\* _open_xz, lines 963-972: xz unless threads == 0
XXzPiped(progOK, childExit) ==
    /\ x.pc = "xz_piped"
    /\ childExit \in ChildOutcomes(x.path)
    /\ LET att == IF HasR(x.mode)
                  THEN ReaderAttempt("PipedXzReader", x.mode, x.platform,
                                     progOK, TRUE, childExit, x.text)
                  ELSE WriterAttempt("PipedXzWriter", x.mode,
                                     XzLevel(x.compresslevel), SinkOK(x), progOK, x.text)
       IN  x' = IF ThreadsNonzero(x.threads)
                THEN XStep(att, TRUE, att.exc.type = "OSError", "xz_native")
                ELSE [x EXCEPT !.pc = "xz_native"]
    /\ XFrame /\ UNCHANGED disk

\* lines 974-979: lzma.open with preset=compresslevel if "w" in mode; the
\* encoder is built, and the preset checked, before the file is opened
LzmaOpen(m, lvl, sinkOK) ==
    IF HasW(m) /\ lvl[1] \notin LzmaPresets
    THEN Attempt("lzma.open", [type |-> "LZMAError", about |-> "compresslevel"], 0, 0, 0)
    ELSE NativeOpen("lzma.open", sinkOK)

XXzNative ==
    /\ x.pc = "xz_native"
    /\ x' = XStep(TextWrapped(LzmaOpen(x.mode, XzLevel(x.compresslevel),
                                       SinkOK(x)), x.mode, x.text),
                  FALSE, FALSE, "done")
    /\ XFrame /\ UNCHANGED disk

\* _open_zst, lines 989-1003: zstd unless threads == 0
ZstLevel(lvl) == IF lvl = None THEN Some(3) ELSE lvl

XZstPiped(progOK, childExit, zstandard) ==
    /\ x.pc = "zst_piped"
    /\ childExit \in ChildOutcomes(x.path)
    /\ LET att == IF HasR(x.mode)
                  THEN ReaderAttempt("PipedZstdReader", x.mode, x.platform,
                                     progOK, TRUE, childExit, x.text)
                  ELSE WriterAttempt("PipedZstdWriter", x.mode,
                                     ZstLevel(x.compresslevel), SinkOK(x), progOK, x.text)
           x1 == [x EXCEPT !.zstandard = zstandard]
       IN  x' = IF x.compresslevel = Some(0)
                THEN XFinish(x1, ErrorOf([type |-> "AssertionError",
                                          about |-> "compresslevel"]))
                ELSE IF ThreadsNonzero(x.threads)
                THEN [XStep(att, TRUE, att.exc.type = "OSError" /\ zstandard,
                            "zst_native") EXCEPT !.zstandard = zstandard]
                ELSE [x1 EXCEPT !.pc = "zst_native"]
    /\ XFrame /\ UNCHANGED disk

\* lines 1005-1021: the zstandard module
XZstNative ==
    /\ x.pc = "zst_native"
    /\ x' = IF ~x.zstandard
            THEN XFinish(x, ErrorOf([type |-> "ImportError", about |-> "zstandard"]))
            ELSE XStep(TextWrapped(NativeOpen("zstandard.open", SinkOK(x)),
                                   x.mode, x.text), FALSE, FALSE, "done")
    /\ XFrame /\ UNCHANGED disk

\* line 1312: open(filename, mode)
XPlain ==
    /\ x.pc = "plain"
    /\ x' = XStep(TextWrapped(NativeOpen("open", SinkOK(x)), x.mode, x.text),
                  FALSE, FALSE, "done")
    /\ XFrame /\ UNCHANGED disk

\* close() of a file object: the descriptor is closed with it exactly if
\* the object was opened with closefd=True.
CloseFileObject(stream, std) ==
    IF ~stream.closed /\ stream.closefd /\ stream.fd \in {"stdin", "stdout"}
    THEN [std EXCEPT ![stream.fd] = "closed"]
    ELSE std

(***************************************************************************)
(* Data through the streams of xopen(), for calls on a path that held      *)
(* nothing with a magic number before: what a stream opened for writing    *)
(* has been given reaches the file when the stream is closed, as one       *)
(* member of the format of the call (raw for an uncompressed stream); the  *)
(* path is then opened again with the same arguments, or read.             *)
(***************************************************************************)
\* Data as far as the format detection can tell it apart: nothing, bytes
\* that start with the magic number of gzip, and other bytes.
DataKinds == {"empty", "magic", "plain"}

XOnFreshPath ==
    /\ x.pc = "done" /\ x.result.kind = "stream"
    /\ x.name # "-" /\ x.path = "ok" /\ x.platform = "posix"
    /\ x.format = "None" /\ x.compresslevel = None
    /\ x.magic \in {"None", "unread"} \/ disk.opens > 0

\* write() on the returned stream
XWrite(a) ==
    /\ XOnFreshPath /\ ~HasR(x.mode)
    /\ ~x.result.closed /\ x.data = "unwritten"
    /\ x' = [x EXCEPT !.data = a]
    /\ UNCHANGED <<self, proc, call, hist, disk, many, race, cmd>>

\* The first bytes of the file, as _detect_format_from_content reads them.
RECURSIVE MagicOf(_)
MagicOf(content) ==
    IF content = <<>> THEN "None"
    ELSE IF content[1].fmt # "None" THEN content[1].fmt
    ELSE IF content[1].payload = "magic" THEN "gz"
    ELSE IF content[1].payload = "plain" THEN "None"
    ELSE MagicOf(Tail(content))

NonEmpty(seq) == SelectSeq(seq, LAMBDA v : v # "empty")

\* What a stream of format fmt returns for the file: the data of its
\* members if they all are of that format, else the decoder fails.
Decode(fmt, content) ==
    IF \A i \in 1..Len(content) : content[i].fmt = fmt
    THEN [kind |-> "data",
          data |-> NonEmpty([i \in 1..Len(content) |-> content[i].payload])]
    ELSE [kind |-> "error"]

\* The file once a stream that was opened on it in mode m and given the
\* data a is closed.
Committed(d, m, fmt, a) ==
    [OpenOutfile(d, m) EXCEPT
        !.content = Append(@, [fmt |-> fmt, payload |-> a, complete |-> TRUE,
                               header |-> HeaderOf(x.result.backend, x.threads)]),
        !.written = Append(@, [mode |-> m, n |-> a])]

\* The caller closes the stream that xopen() returned.
XClose ==
    /\ x.pc = "done" /\ x.result.kind = "stream" /\ x.closes < MaxCloses
    /\ x' = [x EXCEPT !.closes = @ + 1,
                      !.std = CloseFileObject(x.result, x.std),
                      !.result = [@ EXCEPT !.closed = TRUE]]
    /\ disk' = IF ~x.result.closed /\ x.data # "unwritten"
               THEN Committed(disk, x.mode, x.detected, x.data)
               ELSE disk
    /\ XFrame

\* The path is opened again: for writing in the same mode, or for reading.
XReopen(m) ==
    /\ XOnFreshPath /\ ~HasR(x.mode)
    /\ x.result.closed /\ x.data # "unwritten"
    /\ disk.opens < MaxOpens
    /\ m = "rb" \/ (m = x.mode /\ disk.opens < MaxOpens - 1)
    /\ x' = XBegin(x.name, m, None, x.threads, "None", "ok",
                   MagicOf(disk.content), "posix")
    /\ UNCHANGED <<self, proc, call, hist, disk, many, race, cmd>>

\* read() to the end of the file on the returned stream
XReadAll ==
    /\ XOnFreshPath /\ HasR(x.mode)
    /\ disk.opens > 0
    /\ ~x.result.closed /\ x.read.kind = "none"
    /\ x' = [x EXCEPT !.read = Decode(x.detected, disk.content)]
    /\ UNCHANGED <<self, proc, call, hist, disk, many, race, cmd>>

(***************************************************************************)
(* Several piped writers side by side (as in test_open_many_writers): the  *)
(* caller opens them one after the other, then writes to them and closes   *)
(* them in any order.  A child sees the end of its stdin when every process     *)
(* that holds the write end of that pipe has closed it.                    *)
(***************************************************************************)
WriterIds == 1..MaxWriters

\* pending: whether the pipe to the child holds data it has not read yet;
\* fed: whether the child has read any.
NoWriter == [st |-> "unopened", pending |-> FALSE, fed |-> FALSE,
             child |-> "none", inherited |-> {}]

NoMany == [platform |-> "posix", w |-> [i \in WriterIds |-> NoWriter]]

\* _open_process, lines 274-275: close_fds=True unless on win32, where the
\* argument is left at its default
CloseFds(plat) == plat # "win32"

\* The parent's ends of the pipes that subprocess creates are not
\* inheritable.
PipeEndsInheritable == FALSE

\* A spawn that hands every descriptor of the parent on to the child.
InheritedWriteEndsLeaky(plat, open) == open

\* _open_process, lines 268-277: the write ends of other writers' pipes
\* that a new child holds.  With close_fds=True the child keeps only its
\* standard streams.
InheritedWriteEnds(plat, open) ==
    IF CloseFds(plat) THEN {} ELSE {j \in open : PipeEndsInheritable}

\* The constructor of writer i, at the side of the writers 1..i-1, which
\* are all open.
ManyOpen(i) ==
    /\ many.w[i].st = "unopened"
    /\ \A j \in 1..(i - 1) : many.w[j].st = "open"
    /\ LET open == {j \in WriterIds : many.w[j].st = "open"} IN
       many' = [many EXCEPT !.w[i] =
                   [st |-> "open", pending |-> FALSE, fed |-> FALSE,
                    child |-> "running",
                    inherited |-> InheritedWriteEnds(many.platform, open)]]
    /\ UNCHANGED <<self, proc, call, hist, x, disk, race, cmd>>

\* write() followed by a flush into the pipe
ManyWrite(i) ==
    /\ many.w[i].st = "open" /\ many.w[i].child = "running"
    /\ many' = [many EXCEPT !.w[i].pending = TRUE]
    /\ UNCHANGED <<self, proc, call, hist, x, disk, race, cmd>>

ManyChildReads(i) ==
    /\ many.w[i].child = "running" /\ many.w[i].pending
    /\ many' = [many EXCEPT !.w[i].pending = FALSE, !.w[i].fed = TRUE]
    /\ UNCHANGED <<self, proc, call, hist, x, disk, race, cmd>>

\* The pipe to child i is drained and nobody holds its write end: neither
\* the caller nor a running child that inherited it.
StdinAtEOF(i) ==
    /\ many.w[i].st \in {"waiting", "closed"}
    /\ ~many.w[i].pending
    /\ \A j \in WriterIds :
          (many.w[j].child = "running" /\ j # i) => i \notin many.w[j].inherited

\* The program ends at the end of its input, and not before.
ManyChildExits(i) ==
    /\ many.w[i].child = "running" /\ StdinAtEOF(i)
    /\ many' = [many EXCEPT !.w[i].child = "exited"]
    /\ UNCHANGED <<self, proc, call, hist, x, disk, race, cmd>>

\* close(), lines 284-287: the caller closes its end of the pipe
ManyCloseStdin(i) ==
    /\ many.w[i].st = "open"
    /\ many' = [many EXCEPT !.w[i].st = "waiting"]
    /\ UNCHANGED <<self, proc, call, hist, x, disk, race, cmd>>

\* close(), lines 288-302: process.wait() returns once the child has ended
ManyCloseWait(i) ==
    /\ many.w[i].st = "waiting" /\ many.w[i].child = "exited"
    /\ many' = [many EXCEPT !.w[i].st = "closed"]
    /\ UNCHANGED <<self, proc, call, hist, x, disk, race, cmd>>

(***************************************************************************)
(* Two callers inside close() of one piped stream at the same time: two    *)
(* threads, or close() entered again from __del__ (lines 177-180) while a  *)
(* call is under way.  Each caller runs the lines of close() one at a      *)
(* time, and the other caller may run between any two of them.             *)
(***************************************************************************)
Callers == {1, 2}

NoSteps == [stdinCloses |-> 0, waits |-> 0, outfileCloses |-> 0,
            terminates |-> 0, communicates |-> 0, fileCloses |-> 0]

NoRace == [kind |-> "none", closed |-> FALSE,
           pc |-> [t \in Callers |-> "out"],
           retcode |-> [t \in Callers |-> None],
           check |-> [t \in Callers |-> FALSE],
           stderr_message |-> [t \in Callers |-> <<>>],
           result |-> [t \in Callers |-> NoExc],
           child |-> "none", code |-> 0, errText |-> <<>>,
           file |-> "open", outfile |-> "open", stderr |-> "open",
           steps |-> NoSteps]

\* The child ends, of itself or from the signal, with a message on its
\* stderr if the status is not 0.
RaceChildExits(code) ==
    /\ race.child = "running"
    /\ race' = [race EXCEPT !.child = "exited", !.code = code,
                            !.errText = IF code = 0 THEN <<>> ELSE <<"error">>]
    /\ UNCHANGED <<self, proc, call, hist, x, disk, many, cmd>>

\* lines 284-285 and 388-389: "if self.closed: return"
RaceCloseCheck(t) ==
    /\ race.kind # "none" /\ race.pc[t] = "out"
    /\ race' = [race EXCEPT !.pc[t] = IF AlreadyClosed(race) THEN "done" ELSE "mark"]
    /\ UNCHANGED <<self, proc, call, hist, x, disk, many, cmd>>

\* lines 286 and 390: "self.closed = True"
RaceCloseMark(t) ==
    /\ race.pc[t] = "mark"
    /\ race' = [MarkClosed(race) EXCEPT
                  !.pc[t] = IF race.kind = "writer" THEN "w287" ELSE "r391"]
    /\ UNCHANGED <<self, proc, call, hist, x, disk, many, cmd>>

\* line 287
RaceWriterStdin(t) ==
    /\ race.pc[t] = "w287"
    /\ race' = [race EXCEPT !.file = "closed", !.steps.stdinCloses = @ + 1,
                            !.pc[t] = "w288"]
    /\ UNCHANGED <<self, proc, call, hist, x, disk, many, cmd>>

\* line 288
RaceWriterWait(t) ==
    /\ race.pc[t] = "w288" /\ race.child = "exited"
    /\ race' = [race EXCEPT !.retcode[t] = Some(race.code),
                            !.steps.waits = @ + 1, !.pc[t] = "w289"]
    /\ UNCHANGED <<self, proc, call, hist, x, disk, many, cmd>>

\* line 289
RaceWriterOutfile(t) ==
    /\ race.pc[t] = "w289"
    /\ race' = [race EXCEPT !.outfile = "closed", !.steps.outfileCloses = @ + 1,
                            !.pc[t] = "w290"]
    /\ UNCHANGED <<self, proc, call, hist, x, disk, many, cmd>>

\* lines 290-303
RaceWriterInterpret(t) ==
    /\ race.pc[t] = "w290"
    /\ race' = [race EXCEPT !.result[t] = WriterExitStatus(race.retcode[t][1]),
                            !.pc[t] = "done"]
    /\ UNCHANGED <<self, proc, call, hist, x, disk, many, cmd>>

\* lines 391-393
RaceReaderPoll(t) ==
    /\ race.pc[t] = "r391"
    /\ LET retcode == IF race.child = "exited" THEN Some(race.code) ELSE None IN
       race' = [race EXCEPT !.retcode[t] = retcode, !.check[t] = FALSE,
                            !.pc[t] = IF retcode = None THEN "r395" ELSE "r397"]
    /\ UNCHANGED <<self, proc, call, hist, x, disk, many, cmd>>

\* lines 395-396
RaceReaderTerminate(t) ==
    /\ race.pc[t] = "r395"
    /\ race' = [race EXCEPT !.steps.terminates = @ + 1, !.check[t] = TRUE,
                            !.pc[t] = "r397"]
    /\ UNCHANGED <<self, proc, call, hist, x, disk, many, cmd>>

\* line 397: communicate() returns what it read from stderr.  With another
\* caller that has been in communicate() on the same pipes, what this one
\* gets of the message is not determined.
RaceReaderCommunicate(t, message) ==
    /\ race.pc[t] = "r397" /\ race.child = "exited"
    /\ message \in (IF race.steps.communicates = 0 THEN {race.errText}
                    ELSE {race.errText, <<>>})
    /\ race' = [race EXCEPT !.stderr_message[t] = message, !.stderr = "closed",
                            !.steps.communicates = @ + 1, !.pc[t] = "r398"]
    /\ UNCHANGED <<self, proc, call, hist, x, disk, many, cmd>>

\* line 398
RaceReaderFile(t) ==
    /\ race.pc[t] = "r398"
    /\ race' = [race EXCEPT !.file = "closed", !.steps.fileCloses = @ + 1,
                            !.pc[t] = "r399"]
    /\ UNCHANGED <<self, proc, call, hist, x, disk, many, cmd>>

\* line 399
RaceReaderInterpret(t) ==
    /\ race.pc[t] = "r399"
    /\ race' = [race EXCEPT
                  !.result[t] = RaiseIfError("posix", "PipedGzipReader",
                                    Some(race.code), race.check[t],
                                    race.stderr_message[t], race.stderr,
                                    race.errText),
                  !.pc[t] = "done"]
    /\ UNCHANGED <<self, proc, call, hist, x, disk, many, cmd>>

\* The errors that the calls of close() have raised.
RaceErrors == {t \in Callers : race.result[t] # NoExc}

(***************************************************************************)
(* The command line of the child, as the constructors of the piped classes *)
(* build it from the class, the threads argument and the compression       *)
(* level.  An argument is an option with the number that is formatted into *)
(* it, if any.                                                             *)
(***************************************************************************)
Arg(opt, val) == [opt |-> opt, val |-> val]
Plain(args) == [i \in 1..Len(args) |-> Arg(args[i], None)]

\* The values of threads that a caller passes, and the CPUs there may be.
ThreadCounts == {None, Some(0), Some(1), Some(2)}
CpuCounts == {1, 2, 8}

\* threads_flag as each class passes it to the base constructor
ThreadsFlag(c) ==
    CASE c \in {"PipedPigzWriter", "PipedPBzip2Writer",
                "PipedPigzReader", "PipedPBzip2Reader"} -> Some("-p")
      [] c \in {"PipedXzWriter", "PipedZstdWriter", "PipedXzReader"} -> Some("-T")
      [] OTHER -> None

\* program_args of the reader classes
ReaderProgramArgs(c) ==
    CASE c = "PipedGzipReader"       -> <<"gzip">>
      [] c = "PipedPigzReader"       -> <<"pigz">>
      [] c = "PipedIGzipReader"      -> <<"igzip">>
      [] c = "PipedPythonIsalReader" -> <<"python", "-m", "isal.igzip">>
      [] c = "PipedPBzip2Reader"     -> <<"pbzip2">>
      [] c = "PipedXzReader"         -> <<"xz">>
      [] c = "PipedZstdReader"       -> <<"zstd">>
      [] OTHER                       -> <<"program">>

\* lines 225-227 and 261-263 (writer): threads defaults to the number of
\* CPUs capped at four, and the flag is appended unless threads is 0
WriterThreadArgs(flag, threads, cpus) ==
    LET n == IF threads = None THEN (IF cpus < 4 THEN cpus ELSE 4) ELSE threads[1]
    IN  IF n # 0 /\ flag # None THEN <<Arg(flag[1], Some(n))>> ELSE <<>>

\* lines 350-359 (reader): threads defaults to 1, and the flag is appended
\* whenever the class has one
ReaderThreadArgs(flag, threads) ==
    LET n == IF threads = None THEN 1 ELSE threads[1]
    IN  IF flag # None THEN <<Arg(flag[1], Some(n))>> ELSE <<>>

\* lines 264-266: the level, in write mode
LevelArgs(m, lvl) ==
    IF m \in {"w", "wt", "wb"} /\ lvl # None THEN <<Arg("-", lvl)>> ELSE <<>>

NoCmd == [kind |-> "none"]

\* _open_process, lines 260-277: the arguments that the writer hands to Popen
WriterCommand(c, m, lvl, threads, cpus) ==
    /\ cmd.kind = "none"
    /\ threads = None \/ cpus = 1
    /\ cmd' = [kind |-> "writer", cls |-> c, mode |-> m, threads |-> threads,
               cpus |-> cpus, flag |-> ThreadsFlag(c),
               argv |-> Plain(ProgramArgs(c))
                        \o WriterThreadArgs(ThreadsFlag(c), threads, cpus)
                        \o LevelArgs(m, lvl)]
    /\ UNCHANGED <<self, proc, call, hist, x, disk, many, race>>

\* lines 348-361: the arguments that the reader hands to Popen
ReaderCommand(c, threads) ==
    /\ cmd.kind = "none"
    /\ cmd' = [kind |-> "reader", cls |-> c, mode |-> "rb", threads |-> threads,
               cpus |-> 1, flag |-> ThreadsFlag(c),
               argv |-> Plain(ReaderProgramArgs(c))
                        \o <<Arg("-cd", None), Arg("path", None)>>
                        \o ReaderThreadArgs(ThreadsFlag(c), threads)]
    /\ UNCHANGED <<self, proc, call, hist, x, disk, many, race>>

(***************************************************************************)
(* The specification.                                                      *)
(***************************************************************************)
Init ==
    /\ self = NoObject
    /\ proc = NoProcess
    /\ call = IdleCall
    /\ hist = NoHistory
    /\ x = NoXopen
    /\ disk = NoDisk
    /\ cmd = NoCmd
    /\ many = NoMany
    /\ race = NoRace

WriterNext ==
    \/ Fresh /\ \E c \in WriterClasses, m \in CallerModes, lvl \in {None} \cup {Some(l) : l \in Levels},
          sinkOK \in BOOLEAN, progOK \in BOOLEAN :
            ConstructWriter(c, m, lvl, sinkOK, progOK)
    \/ \E flush \in BOOLEAN : Write(flush)
    \/ Iter
    \/ NextItem
    \/ WriterChildReads
    \/ \E code \in ChildExitCodes : WriterChildExits(code)
    \/ WriterCloseEnter
    \/ WriterCloseMark
    \/ WriterCloseStdin
    \/ WriterCloseWait
    \/ WriterCloseOutfile
    \/ WriterCloseInterpret

ReaderNext ==
    \/ Fresh /\ \E c \in ReaderClasses, m \in CallerModes, plat \in Platforms,
          progOK \in BOOLEAN, probeOK \in BOOLEAN :
            ConstructReader(c, m, plat, progOK, probeOK)
    \/ ReaderChildOutputs
    \/ \E text \in StderrTexts : ReaderChildComplains(text)
    \/ ReaderChildClosesStdout
    \/ \E code \in ChildExitCodes : ReaderChildExits(code)
    \/ ReaderWaitPeek
    \/ ReaderWaitPoll
    \/ ReaderInitCheck
    \/ Read
    \/ ReadToEOF
    \/ ReaderCloseEnter
    \/ ReaderCloseMark
    \/ ReaderClosePoll
    \/ ReaderCloseTerminate
    \/ ReaderCloseCommunicate
    \/ ReaderCloseFile
    \/ ReaderCloseInterpret

(***************************************************************************)
(* One piped reader with a caller that does not stop in the middle of the  *)
(* constructor: peek() returns when there is data or end of file, poll()   *)
(* and sleep() return, and the child sooner or later writes or exits (it   *)
(* is not a child that stops in a write to its stderr).                    *)
(***************************************************************************)
ReaderFairness ==
    /\ WF_vars(ReaderWaitPeek)
    /\ WF_vars(ReaderWaitPoll)
    /\ WF_vars(ReaderInitCheck)
    /\ WF_vars(ReaderChildOutputs \/ \E code \in ChildExitCodes : ReaderChildExits(code))

ReaderSpec == Init /\ [][ReaderNext]_vars /\ ReaderFairness

(***************************************************************************)
(* Streams opened one after the other on the same path: once a writer has  *)
(* been closed without an error and its program has left a complete member *)
(* in the file, the caller opens the path again, for writing or appending  *)
(* with the same class, or for reading with a class of the same format.    *)
(* The streams of such a sequence are binary and take the default level.   *)
(***************************************************************************)
WriterDone ==
    /\ self.kind = "writer" /\ self.closed /\ call.pc = "idle"
    /\ FormatOf(self.cls) # "raw"
    /\ self.mode \in {"wb", "ab"} /\ self.level = None
    /\ Len(hist.closeResults) >= 1 /\ hist.closeResults[1].exc = NoExc
    /\ Len(disk.content) >= 1 /\ disk.content[Len(disk.content)].complete
    /\ disk.opens < MaxOpens

Written(d) == [d EXCEPT !.written = Append(@, [mode |-> self.mode,
                                               n |-> hist.accepted])]

RECURSIVE Payloads(_)
Payloads(content) ==
    IF content = <<>> THEN 0
    ELSE content[1].payload + Payloads(Tail(content))

\* What the program of class c decompresses from the file: every member,
\* except that an igzip which fails the probe of _can_read_concatenated_gz
\* stops after the first one.
DecodedUnits(c, concatOK, content) ==
    IF c = "PipedIGzipReader" /\ ~concatOK /\ content # <<>>
    THEN content[1].payload
    ELSE Payloads(content)

\* The last stream of a sequence is left to a reader.
ReopenWriter(m) ==
    /\ WriterDone
    /\ disk.opens < MaxOpens - 1
    /\ StartWriter(Written(disk), self.cls, m, None, TRUE, TRUE)

ReopenReader(c, concatOK) ==
    /\ WriterDone
    /\ FormatOf(c) = FormatOf(self.cls)
    /\ c # "PipedIGzipReader" => concatOK
    /\ StartReader(c, "rb", "posix", TRUE, concatOK,
                   Some(DecodedUnits(c, concatOK, disk.content)))
    /\ disk' = [Written(disk) EXCEPT !.opens = @ + 1]

\* A reader of the sequence has been closed.
ReaderDone ==
    /\ self.kind = "reader" /\ self.closed /\ call.pc = "idle"
    /\ proc.source # None
    /\ Len(hist.closeResults) >= 1
    /\ disk.opens < MaxOpens

\* The file is read once more with the same class; the installed programs
\* are what they were.
ReadAgain ==
    /\ ReaderDone
    /\ StartReader(self.cls, "rb", "posix", TRUE, TRUE, proc.source)
    /\ disk' = [disk EXCEPT !.opens = @ + 1]

SessionNext ==
    \/ \E m \in {"wb", "ab"} : ReopenWriter(m)
    \/ \E c \in ReaderClasses, concatOK \in BOOLEAN : ReopenReader(c, concatOK)
    \/ ReadAgain

ChildExits == {None, Some(0), Some(1), Some(5)}

XopenNext ==
    \/ Fresh /\ \E name \in XNames, m \in XModes, lvl \in XLevels, thr \in XThreads,
          fmt \in XFormats, path \in PathStates, magic \in Magics,
          plat \in Platforms :
            XopenCall(name, m, lvl, thr, fmt, path, magic, plat)
    \/ \E isal \in BOOLEAN, levelFirst \in BOOLEAN : XGzThreaded(isal, levelFirst)
    \/ \E progOK \in BOOLEAN, probeOK \in BOOLEAN, childExit \in ChildExits :
            XGzIGzip(progOK, probeOK, childExit)
    \/ \E progOK \in BOOLEAN, childExit \in ChildExits : XGzPigz(progOK, childExit)
    \/ \E progOK \in BOOLEAN, childExit \in ChildExits : XGzGzip(progOK, childExit)
    \/ XGzNative
    \/ \E progOK \in BOOLEAN, childExit \in ChildExits : XBz2Piped(progOK, childExit)
    \/ XBz2Native
    \/ \E progOK \in BOOLEAN, childExit \in ChildExits : XXzPiped(progOK, childExit)
    \/ XXzNative
    \/ \E progOK \in BOOLEAN, childExit \in ChildExits, zstandard \in BOOLEAN :
            XZstPiped(progOK, childExit, zstandard)
    \/ XZstNative
    \/ XPlain

(***************************************************************************)
(* The calls of xopen() with any text arguments.                           *)
(***************************************************************************)
TextNext ==
    \/ Fresh /\ \E name \in XNames, m \in XModes, lvl \in XLevels, thr \in XThreads,
          fmt \in XFormats, path \in PathStates, magic \in Magics,
          plat \in Platforms, text \in TextArgs :
            XopenCallText(name, m, lvl, thr, fmt, path, magic, plat, text)
    \/ XopenNext

XDataNext ==
    \/ \E a \in DataKinds : XWrite(a)
    \/ XClose
    \/ \E m \in XValidModes : XReopen(m)
    \/ XReadAll

\* A child of a reader that fills the pipe of its stderr.
StderrNext ==
    \/ ReaderChildBlocksOnStderr
    \/ ReaderChildKilled

Next ==
    \/ WriterNext
    \/ ReaderNext
    \/ StderrNext
    \/ SessionNext
    \/ XopenNext
    \/ XDataNext

Spec == Init /\ [][Next]_vars

ManyInit ==
    /\ self = NoObject
    /\ proc = NoProcess
    /\ call = IdleCall
    /\ hist = NoHistory
    /\ x = NoXopen
    /\ disk = NoDisk
    /\ cmd = NoCmd
    /\ \E plat \in Platforms : many = [NoMany EXCEPT !.platform = plat]
    /\ race = NoRace

ManyNext ==
    \/ \E i \in WriterIds : ManyOpen(i)
    \/ \E i \in WriterIds : ManyWrite(i)
    \/ \E i \in WriterIds : ManyChildReads(i)
    \/ \E i \in WriterIds : ManyChildExits(i)
    \/ \E i \in WriterIds : ManyCloseStdin(i)
    \/ \E i \in WriterIds : ManyCloseWait(i)

\* The operating system lets every child run, and wait() returns when the
\* child has ended; the caller is free to stop at any point.
ManyFairness ==
    \A i \in WriterIds : /\ WF_vars(ManyChildReads(i))
                          /\ WF_vars(ManyChildExits(i))
                          /\ WF_vars(ManyCloseWait(i))

ManySpec == ManyInit /\ [][ManyNext]_vars /\ ManyFairness

\* One open piped writer or reader, with its child running.
RaceInit ==
    /\ self = NoObject
    /\ proc = NoProcess
    /\ call = IdleCall
    /\ hist = NoHistory
    /\ x = NoXopen
    /\ disk = NoDisk
    /\ cmd = NoCmd
    /\ many = NoMany
    /\ \E k \in {"writer", "reader"} :
          race = [NoRace EXCEPT !.kind = k, !.child = "running"]

RaceNext ==
    \/ \E code \in ChildExitCodes : RaceChildExits(code)
    \/ \E t \in Callers : RaceCloseCheck(t)
    \/ \E t \in Callers : RaceCloseMark(t)
    \/ \E t \in Callers : RaceWriterStdin(t)
    \/ \E t \in Callers : RaceWriterWait(t)
    \/ \E t \in Callers : RaceWriterOutfile(t)
    \/ \E t \in Callers : RaceWriterInterpret(t)
    \/ \E t \in Callers : RaceReaderPoll(t)
    \/ \E t \in Callers : RaceReaderTerminate(t)
    \/ \E t \in Callers, message \in StderrTexts : RaceReaderCommunicate(t, message)
    \/ \E t \in Callers : RaceReaderFile(t)
    \/ \E t \in Callers : RaceReaderInterpret(t)

RaceSpec == RaceInit /\ [][RaceNext]_vars

CmdNext ==
    \/ \E c \in WriterClasses, m \in {"wb", "ab"},
          lvl \in {None} \cup {Some(l) : l \in {1, 5}},
          threads \in ThreadCounts, cpus \in CpuCounts :
            WriterCommand(c, m, lvl, threads, cpus)
    \/ \E c \in ReaderClasses, threads \in ThreadCounts : ReaderCommand(c, threads)

CmdSpec == Init /\ [][CmdNext]_vars

\* The calls of xopen() alone, with text arguments of every kind.
TextSpec == Init /\ [][TextNext]_vars

(***************************************************************************)
(* Properties.                                                             *)
(***************************************************************************)
FirstClose == hist.closeResults[1]
Closed1 == Len(hist.closeResults) >= 1

\* C1: a second (or later) call of close() on a piped writer or reader does
\* no teardown work and raises nothing, also when the first call raised.
C1_SecondCloseIsNoOp ==
    \A i \in 2..Len(hist.closeResults) :
        /\ hist.closeResults[i].exc = NoExc
        /\ hist.closeResults[i].teardown = FirstClose.teardown

C1_Witness ==
    /\ Len(hist.closeResults) >= 2
    /\ FirstClose.exc.type = "OSError"
    /\ FirstClose.exc.about = "exit"

\* C2: when the writer's child exits after its stdin was closed, close()
\* raises an OSError "terminated with exit code N" for every nonzero exit
\* status N and returns normally for exit status 0.
C2_WriterCloseReportsExitCode ==
    (self.kind = "writer" /\ Closed1) =>
        /\ proc.afterStdinClosed => FirstClose.retcode = Some(proc.code)
        /\ FirstClose.retcode # None =>
              IF FirstClose.retcode[1] # 0
              THEN /\ FirstClose.exc.type = "OSError"
                   /\ FirstClose.exc.msg[2] = "terminated with exit code"
                   /\ FirstClose.exc.msg[3] = proc.code
              ELSE FirstClose.exc = NoExc

C2_Witness ==
    /\ self.kind = "writer" /\ Closed1
    /\ proc.afterStdinClosed /\ proc.code = 5
    /\ FirstClose.exc.type = "OSError"
    /\ hist.writes > 0

\* The waiver of a deliberate termination, as the exit status rule states it.
C3_Waived ==
    /\ hist.terminates >= 1
    /\ \/ Some(proc.code) = (IF self.cls = "PipedPBzip2Reader" THEN None
                             ELSE Some(-15))
       \/ /\ self.cls = "PipedPBzip2Reader"
          /\ Len(proc.errText) >= 1 /\ proc.errText[1] = ControlC

\* C3: the reader's close() succeeds exactly when the exit status is 0, or
\* close() took the terminate branch and the status is the allowed exit code
\* or stderr starts with the allowed message; otherwise it raises an I/O
\* error carrying the stderr text and the exit status.
C3_ReaderCloseExitStatus ==
    (self.kind = "reader" /\ Closed1) =>
        IF proc.code = 0 \/ C3_Waived
        THEN FirstClose.exc = NoExc
        ELSE /\ FirstClose.exc.type = "OSError"
             /\ FirstClose.exc.msg = <<proc.errText, "exit code", proc.code>>

XDone == x.pc = "done"
XReturned == XDone /\ x.result.kind = "stream"
XRaised(type) == XDone /\ x.result.kind = "error" /\ x.result.exc.type = type

\* The attempts of the call that failed because the program could not be
\* spawned.
SpawnFailures == {i \in 1..Len(x.log) : x.log[i].exc = OSErrorSpawn}

\* C4: for gz, bz2 and xz, a good path and no compresslevel, xopen() returns
\* a stream whichever external tools cannot be spawned: every failed attempt
\* is followed by a later backend, and the stream comes from the last one.
C4_FallbackOnSpawnFailure ==
    (/\ XDone
     /\ x.detected \in {"gz", "bz2", "xz"}
     /\ x.path = "ok"
     /\ x.compresslevel = None) =>
        /\ x.result.kind = "stream"
        /\ Len(x.log) >= 1
        /\ x.log[Len(x.log)].exc = NoExc
        /\ x.result.backend = x.log[Len(x.log)].cand
        /\ \A i \in 1..(Len(x.log) - 1) : x.log[i].exc # NoExc

C4_Witness ==
    /\ XReturned
    /\ x.detected = "gz" /\ x.path = "ok" /\ x.compresslevel = None
    /\ Cardinality(SpawnFailures) = 3
    /\ ~x.result.piped

\* The levels the in-process gzip fallback of xopen() accepts: zlib's for
\* GzipFile, and 0..3 for IGzipFile where python-isal is installed.
C5_NativeFallbackAccepts ==
    \/ x.compresslevel = None
    \/ x.compresslevel[1] \in (-1)..9
    \/ x.isal /\ x.compresslevel[1] \in 0..3

\* C5: in xopen() for gzip writing an invalid-compresslevel error reaches
\* the caller only if every candidate rejects the level, the in-process
\* fallback (IGzipFile where python-isal is installed, else GzipFile)
\* included.
C5_LevelErrorOnlyIfAllReject ==
    (/\ XRaised("ValueError")
     /\ x.result.exc.about = "compresslevel"
     /\ x.detected = "gz"
     /\ x.mode \in {"wt", "wb", "at", "ab"}) => ~C5_NativeFallbackAccepts

\* The accepted compression levels of each piped writer class, as stated.
C6_ClaimedLevels ==
    [PipedGzipWriter |-> 1..9,
     PipedPigzWriter |-> (0..9) \cup {11},
     PipedIGzipWriter |-> 0..3,
     PipedPythonIsalWriter |-> 0..3,
     PipedXzWriter |-> 0..9,
     PipedZstdWriter |-> 1..19]

\* C6: each piped writer class rejects a compresslevel outside its accepted
\* set with ValueError "compresslevel must be ..." before the destination is
\* opened and before a child is spawned, and accepts every level inside it.
C6_LevelValidatedBeforeSpawn ==
    (/\ self.kind \in {"writer", "failed"}
     /\ self.cls \in DOMAIN C6_ClaimedLevels
     /\ self.level # None) =>
        IF self.level[1] \notin C6_ClaimedLevels[self.cls]
        THEN /\ hist.ctor.type = "ValueError"
             /\ hist.ctor.msg[1] = "compresslevel must be"
             /\ hist.spawned = 0
             /\ hist.opened = 0
             /\ self.outfile = "none"
             /\ proc.st = "none"
        ELSE ~(hist.ctor.type = "ValueError" /\ hist.ctor.about = "compresslevel")

C6_Witness ==
    /\ self.kind = "failed"
    /\ self.cls = "PipedGzipWriter"
    /\ self.level = Some(10)
    /\ self.mode = "wb"
    /\ hist.ctor.type = "ValueError"

\* The modes of the piped writer and of the piped reader, as stated.
C7_WriterModes == {"w", "wt", "wb", "a", "at", "ab"}
C7_ReaderModes == {"r", "rt", "rb"}

\* C7: the constructors of PipedCompressionWriter and PipedCompressionReader
\* (also when reached through a subclass that delegates to them first)
\* reject a mode outside their sets with ValueError, with no child spawned
\* and no destination opened.
C7_ModeValidatedBeforeSpawn ==
    (/\ self.kind # "none"
     /\ self.cls # "PipedIGzipReader"
     /\ \/ self.cls \in WriterClasses /\ self.mode \notin C7_WriterModes
        \/ self.cls \in ReaderClasses /\ self.mode \notin C7_ReaderModes) =>
        /\ self.kind = "failed"
        /\ hist.ctor.type = "ValueError"
        /\ hist.spawned = 0
        /\ hist.opened = 0
        /\ self.outfile = "none"
        /\ proc.st = "none"

C7_Witness ==
    /\ self.kind = "failed"
    /\ self.cls = "PipedCompressionWriter"
    /\ self.mode = "xb"
    /\ hist.ctor.type = "ValueError" /\ hist.ctor.about = "mode"

\* C8: with threads=0 xopen() spawns no subprocess at any point of the call
\* and a returned stream is an in-process one.
C8_NoSubprocessWithThreadsZero ==
    (x.pc # "none" /\ x.threads = Some(0)) =>
        /\ x.spawned = 0
        /\ x.running = 0
        /\ \A i \in 1..Len(x.log) : x.log[i].spawned = 0
        /\ XReturned => ~x.result.piped

C8_Witness ==
    /\ XReturned
    /\ x.threads = Some(0)
    /\ x.detected \in {"gz", "bz2", "xz", "zst"}

\* A finished xopen() call on a path that cannot be opened, otherwise valid:
\* mode and format are valid, no compresslevel is given and a backend for
\* the format exists.
C9_Scope ==
    /\ XDone
    /\ x.path = "unopenable"
    /\ x.name # "-"
    /\ x.mode \in {"rt", "rb", "wt", "wb", "at", "ab"}
    /\ x.format \in {"None", "gz", "xz", "bz2", "zst"}
    /\ x.compresslevel = None
    /\ x.detected = "zst" => (x.zstandard \/ x.threads # Some(0))

C10_StdStreamsStayOpen ==
    (x.pc # "none" /\ x.name = "-") =>
        /\ x.std.stdin = "open"
        /\ x.std.stdout = "open"

C10_Witness ==
    /\ XReturned
    /\ x.name = "-"
    /\ x.result.fd = "stdout"
    /\ x.closes >= 2

XSupportedFormats == {"None", "gz", "xz", "bz2", "zst"}

\* C11: an xopen() call with a valid mode and a format override outside
\* None, gz, xz, bz2, zst raises ValueError for every filename ("-"
\* included), with no file opened, no content read and no child spawned.
C11_UnsupportedFormatRejected ==
    (/\ XDone
     /\ x.mode \in XValidModes
     /\ x.format \notin XSupportedFormats) =>
        /\ XRaised("ValueError")
        /\ x.opened = 0 /\ x.sniffs = 0 /\ x.spawned = 0
        /\ Len(x.log) = 0

\* A call that passed the validation of xopen() and was dispatched on a
\* format.
XDispatched ==
    /\ x.pc # "none"
    /\ x.mode \in XValidModes
    /\ x.name # "-"
    /\ x.format \in XSupportedFormats

\* The format the stated precedence gives: the override, else the
\* extension, else in read mode the magic bytes of the content.
C12_ClaimedFormat ==
    IF x.format # "None" THEN x.format
    ELSE IF DetectFormatFromExtension(x.name) # "None"
    THEN DetectFormatFromExtension(x.name)
    ELSE IF HasR(x.mode) /\ x.magic # "unread" THEN x.magic
    ELSE "None"

\* C12: the format of a call is the override, else the extension, else in
\* read mode only the magic bytes; in write and append mode the content of
\* the file is never read.
C12_FormatPrecedence ==
    XDispatched =>
        /\ x.detected = C12_ClaimedFormat
        /\ ~HasR(x.mode) => (x.sniffs = 0 /\ x.magic = "unread")

\* A stream opened for reading on a path that piped writers have written,
\* and read to its end.
SessionRead ==
    /\ self.kind = "reader" /\ proc.source # None
    /\ hist.eofReads # <<>>
LastWritten == disk.written[Len(disk.written)]

XAppendedAndRead ==
    /\ XOnFreshPath /\ HasR(x.mode)
    /\ x.read.kind # "none"
    /\ Len(disk.written) = 2
    /\ \A i \in 1..2 : disk.written[i].mode \in {"at", "ab"}

XAppendedData == NonEmpty(<<disk.written[1].n, disk.written[2].n>>)

\* The same for the piped classes.
SessionAppendedAndRead ==
    /\ SessionRead
    /\ Len(disk.written) = 2
    /\ \A i \in 1..2 : disk.written[i].mode = "ab"

\* C14 (as claimed): after two xopen() calls in append mode on one path that
\* wrote A and then B, reading the path returns A followed by B, for the
\* uncompressed and for every compressed format and whichever backends the
\* three calls select.
C14_AppendThenRead ==
    XAppendedAndRead =>
        x.read = [kind |-> "data", data |-> XAppendedData]

\* C14 (amended): the same, provided that for a name without a known
\* extension A followed by B does not start with the magic number of a
\* supported format; and the piped classes append member after member and
\* read them all back.
C14_AppendThenReadUnlessMagic ==
    /\ (/\ XAppendedAndRead
        /\ DetectFormatFromExtension(x.name) = "None"
              => (XAppendedData = <<>> \/ XAppendedData[1] # "magic")) =>
            x.read = [kind |-> "data", data |-> XAppendedData]
    /\ SessionAppendedAndRead =>
        /\ hist.got = disk.written[1].n + disk.written[2].n
        /\ Len(disk.content) = 2
        /\ \A i \in 1..2 : disk.content[i].payload = disk.written[i].n

C14_Witness ==
    /\ XAppendedAndRead
    /\ x.name = "f"
    /\ disk.written[1].n = "plain" /\ disk.written[2].n = "magic"
    /\ x.read.kind = "data"
    /\ Len(x.read.data) = 2

\* C15: every backend that writes gzip is set up to write a header without
\* a file name and with modification time 0: each stream xopen() returns for
\* writing or appending gzip, and each gzip member that a piped writer or
\* such a stream has left in the file.
C15_ReproducibleGzipHeader ==
    /\ (XReturned /\ ~HasR(x.mode) /\ x.detected = "gz")
            => HeaderOf(x.result.backend, x.threads) = GzipHeaderOf(FALSE, "0")
    /\ \A i \in 1..Len(disk.content) :
            disk.content[i].fmt = "gz"
                => disk.content[i].header = GzipHeaderOf(FALSE, "0")

\* C15 witness: the in-process writer of the standard library has written
\* a gzip member.
C15_Witness ==
    /\ XReturned /\ x.result.backend = "gzip.GzipFile" /\ x.mode = "wb"
    /\ Len(disk.content) = 1 /\ disk.content[1].fmt = "gz"
    /\ disk.content[1].header = GzipHeaderOf(FALSE, "0")

\* C16: on a piped writer, open or closed, iter() returns the writer itself
\* and next() raises io.UnsupportedOperation("not readable"); neither call
\* changes the writer.
C16_WriterIterAndNext ==
    (self.kind = "writer" /\ hist.probe # <<>>) =>
        LET p == hist.probe[1] IN
        /\ self = p.was
        /\ p.op = "iter" => (p.returned = "self" /\ p.exc = NoExc)
        /\ p.op = "next" => p.exc = UnsupportedOperation

\* C16 witness: next() on a writer that has been closed.
C16_Witness ==
    /\ self.kind = "writer" /\ self.closed /\ self.file = "closed"
    /\ hist.probe # <<>> /\ hist.probe[1].op = "next"
    /\ hist.probe[1].exc = UnsupportedOperation

\* The child of a reader on a file that starts well and is cut short: it
\* has written output, has complained on stderr and has ended with a
\* failure status of its own.
C17_TruncatedChild ==
    /\ self.kind = "reader" /\ proc.source = None
    /\ proc.st = "exited" /\ proc.code \in {1, 5} /\ ~proc.signalled
    /\ proc.produced > 0 /\ proc.errText = <<"error">>

\* C17: on a truncated compressed file, reading the stream to its end with
\* read() or by iterating over its lines raises an I/O or EOF error.
C17_TruncatedReadRaises ==
    (C17_TruncatedChild /\ hist.eofReads # <<>>)
        => hist.eofReads[1].type \in {"OSError", "EOFError"}

\* The first close() of the reader has returned and the child had ended
\* with a failure status without close() having signalled it.
C19_DiedUnprompted ==
    /\ self.kind = "reader" /\ Closed1
    /\ proc.st = "exited" /\ proc.code # 0 /\ ~proc.signalled

\* C19: a child of a reader that dies from a terminate signal or with
\* another failure status that close() did not cause is reported as an
\* error by close(), however its death falls between the steps of close().
C19_UnpromptedDeathReported ==
    C19_DiedUnprompted => FirstClose.exc # NoExc

\* close() of a pbzip2 reader has returned after it took the branch that
\* terminates the child.
C20_PBzip2Terminated ==
    /\ self.kind = "reader" /\ self.cls = "PipedPBzip2Reader" /\ Closed1
    /\ hist.terminates >= 1 /\ proc.code # 0

\* C20 as stated: for the pbzip2 reader, after close() terminated the child,
\* the exit status of the terminate signal waives the error whatever stderr
\* holds, and so does the Control-C message on stderr whatever the status.
C20_EitherConditionWaives ==
    (C20_PBzip2Terminated /\ (proc.code = -SIGTERM
                                \/ StartsWith(proc.errText, <<ControlC>>)))
        => FirstClose.exc = NoExc

\* C20 amended: for the pbzip2 reader, after close() terminated the child,
\* the Control-C message on stderr waives the error whatever the exit status
\* is, and the exit status of the terminate signal does not waive it without
\* that message.
C20_OnlyMessageWaives ==
    C20_PBzip2Terminated =>
        /\ StartsWith(proc.errText, <<ControlC>>) => FirstClose.exc = NoExc
        /\ (proc.code = -SIGTERM /\ ~StartsWith(proc.errText, <<ControlC>>))
                => FirstClose.exc # NoExc

\* C20 witness: pbzip2 died of the signal that close() sent, wrote something
\* else to stderr, and close() raised.
C20_Witness ==
    /\ C20_PBzip2Terminated /\ proc.signalled /\ proc.code = -SIGTERM
    /\ proc.errText = <<"error">> /\ FirstClose.exc.type = "OSError"

\* C18: with any number of piped writers open at the same time and closed
\* in any order, every close() that has closed its end of the pipe returns:
\* the child gets the end of its input because no other child holds the
\* pipe open.
C18_EveryCloseTerminates ==
    \A i \in WriterIds : (many.w[i].st = "waiting") ~> (many.w[i].st = "closed")

\* C18 witness: the first writer has been written to and closed while two
\* writers that were opened at its side are still open with their children
\* running.
C18_Witness ==
    /\ many.w[1].st = "closed" /\ many.w[1].fed
    /\ many.w[2].st = "open" /\ many.w[2].child = "running"
    /\ many.w[3].st = "open" /\ many.w[3].child = "running"

\* C21: for a path that is a named pipe, one call of xopen() opens the path
\* at most once, counting the format sniffing and every attempt of the
\* ladder, the children that are given the path included.
C21_SpecialPathOpenedOnce ==
    (x.pc # "none" /\ x.path = "fifo") => x.opened <= 1

\* C22: the probe of igzip for concatenated gzip members runs at most once
\* while the process lives; later opens use the remembered answer.
C22_ProbeRunsOnce ==
    hist.probeRuns <= 1

\* C23: close() of a piped writer closes the pipe to the child first, then
\* waits for the child, then closes the destination file, and only then
\* interprets the exit status; it never waits while the pipe is open.
C23_WriterCloseOrder ==
    self.kind = "writer" =>
        /\ call.pc = "w288" => self.file = "closed"
        /\ hist.waits <= hist.stdinCloses
        /\ hist.outfileCloses <= hist.waits
        /\ call.pc = "w290" => self.outfile = "closed"
        /\ \A i \in 1..Len(hist.closeResults) :
              hist.closeResults[i].retcode # None =>
                  /\ hist.closeResults[i].teardown[1] = 1
                  /\ hist.closeResults[i].teardown[2] = 1
                  /\ hist.closeResults[i].teardown[3] = 1

\* C23 witness: a close() that went through all the steps and raised for
\* the exit status of a child that had still been fed from the buffer.
C23_Witness ==
    /\ self.kind = "writer" /\ Closed1
    /\ FirstClose.retcode = Some(5) /\ FirstClose.exc = OSErrorExitCode(5)
    /\ FirstClose.teardown = <<1, 1, 1, 0, 0, 0>>
    /\ self.file = "closed" /\ self.outfile = "closed"
    /\ proc.afterStdinClosed

\* C24: the constructor of a piped reader returns a stream only after the
\* child has written at least one byte or has exited, and when the child has
\* exited with a nonzero status by then it raises an OSError with the
\* child's stderr and exit status instead of returning a stream.
C24_ConstructorWaitsAndChecks ==
    /\ (self.kind = "reader" /\ hist.closeCalls = 0) =>
           /\ proc.produced >= 1 \/ proc.st = "exited"
           /\ proc.returncode \in {None, Some(0)}
    /\ (self.kind = "failed" /\ proc.st # "none") =>
           /\ proc.st = "exited" /\ proc.code # 0
           /\ hist.ctor = OSErrorStderr(proc.errText, proc.code)

\* C25: the wait loop in the constructor of a piped reader ends: with a
\* child that sooner or later writes a byte or exits, the constructor
\* returns or raises, and it does not go round the loop for ever once the
\* child has written or exited.
C25_ConstructorEnds ==
    (self.kind = "constructing") ~> (self.kind \in {"reader", "failed"})

\* C25 witness: the constructor has left the loop for a child that exited
\* without a byte of output, and has raised.
C25_Witness ==
    /\ self.kind = "failed" /\ call.pc = "idle"
    /\ proc.st = "exited" /\ proc.produced = 0 /\ proc.code = 5
    /\ proc.returncode = Some(5)
    /\ hist.ctor = OSErrorStderr(proc.errText, 5)

\* C26: with two callers inside close() of one piped stream at a time, each
\* teardown step (terminate, wait or communicate, closing the pipes and the
\* files) runs at most once and at most one error is raised in all, however
\* the test of the closed flag and its assignment interleave.
C26_ConcurrentCloseOnce ==
    /\ race.steps.stdinCloses <= 1 /\ race.steps.waits <= 1
    /\ race.steps.outfileCloses <= 1 /\ race.steps.terminates <= 1
    /\ race.steps.communicates <= 1 /\ race.steps.fileCloses <= 1
    /\ Cardinality(RaceErrors) <= 1

\* The first close() of a reader is over; it found the child running, sent
\* it the signal, and the child died from the signal.
C27_TerminatedBySignal ==
    /\ self.kind = "reader" /\ Closed1
    /\ hist.terminates >= 1 /\ proc.signalled /\ proc.code = -SIGTERM

C28_Rank(cand) ==
    CASE cand = "igzip_threaded" -> 1
      [] cand \in {"PipedIGzipReader", "PipedIGzipWriter"} -> 2
      [] cand \in {"PipedPigzReader", "PipedPigzWriter"} -> 3
      [] cand \in {"PipedGzipReader", "PipedGzipWriter"} -> 4
      [] OTHER -> 5

\* A finished call for the gzip format with threads other than 0 and no
\* compression level.
C28_Case ==
    /\ XDone /\ x.detected = "gz"
    /\ x.threads # Some(0) /\ x.compresslevel = None

\* C28: for gzip with threads != 0 and no compression level the backend is
\* the first one available in the order igzip_threaded library, igzip
\* program (for reading only if it passes the probe), pigz, gzip, native
\* library: the candidates are tried in that order without a gap, each one
\* only after all the earlier ones failed, the stream comes from the last
\* one tried, and no failure of an external program ends the call.
C28_GzipLadderOrder ==
    C28_Case =>
        LET n == Len(x.log) IN
        /\ n >= 1
        /\ C28_Rank(x.log[1].cand) = IF x.isal THEN 1 ELSE 2
        /\ \A i \in 1..(n - 1) :
              /\ x.log[i].exc # NoExc
              /\ C28_Rank(x.log[i + 1].cand) = C28_Rank(x.log[i].cand) + 1
        /\ XReturned => /\ x.log[n].exc = NoExc
                        /\ x.result.backend = x.log[n].cand
        /\ ~XReturned => /\ x.log[n].exc # NoExc
                         /\ C28_Rank(x.log[n].cand) \in {1, 5}
        /\ (XReturned /\ x.result.backend = "PipedIGzipReader")
              => x.log[n].spawned = 2

\* C28 witness: the library is not installed, igzip fails the probe, pigz
\* is not installed, and the gzip program reads the file.
C28_Witness ==
    /\ C28_Case /\ XReturned /\ ~x.isal /\ HasR(x.mode)
    /\ Len(x.log) = 3
    /\ x.log[1].cand = "PipedIGzipReader" /\ x.log[1].exc.type = "ValueError"
    /\ x.log[2].cand = "PipedPigzReader" /\ x.log[2].exc = OSErrorSpawn
    /\ x.result.backend = "PipedGzipReader"

\* The most candidates that a format has: five for gzip, two for the
\* others, one for an uncompressed file.
C29_MaxAttempts(detected) ==
    CASE detected = "gz" -> 5
      [] detected \in {"xz", "bz2", "zst"} -> 2
      [] OTHER -> 1

\* C29: within one call of xopen() every candidate backend is attempted at
\* most once and is not tried again after it failed, so that the number of
\* attempts of the call is bounded, whichever backends fail.
C29_EachCandidateOnce ==
    x.pc # "none" =>
        /\ \A i, j \in 1..Len(x.log) : i # j => x.log[i].cand # x.log[j].cand
        /\ Len(x.log) <= C29_MaxAttempts(x.detected)

\* C29 witness: a call for gzip in which all the five candidates failed,
\* each of them once.
C29_Witness ==
    /\ XDone /\ x.result.kind = "error" /\ x.detected = "gz"
    /\ Len(x.log) = 5
    /\ \A i \in 1..5 : x.log[i].exc # NoExc
    /\ x.log[1].cand = "igzip_threaded"

\* C30: PipedIGzipReader does not read a file when the installed igzip fails
\* the probe: its constructor raises ValueError and has started no child
\* but the one of the probe, xopen() goes on to pigz and then to gzip, and
\* a gzip file of several members that piped writers have left is read to
\* the end of its last member by every piped reader.
C30_NoIGzipWithoutConcat ==
    /\ (self.cls = "PipedIGzipReader" /\ hist.concat = Some(FALSE)) =>
            /\ self.kind = "failed" /\ hist.ctor.type = "ValueError"
            /\ hist.spawned = 1 /\ proc.st = "none"
    /\ (x.pc # "none" /\ x.concat = Some(FALSE)) =>
            /\ x.log[1].cand = "PipedIGzipReader"
            /\ x.log[1].exc.type = "ValueError"
            /\ x.log[1].spawned = 1 /\ x.log[1].opened = 0
            /\ Len(x.log) >= 2 => x.log[2].cand = "PipedPigzReader"
            /\ Len(x.log) >= 3 => x.log[3].cand = "PipedGzipReader"
            /\ XReturned => x.result.backend # "PipedIGzipReader"
            /\ ~XDone => x.pc = CASE Len(x.log) = 1 -> "gz_pigz"
                                  [] Len(x.log) = 2 -> "gz_gzip"
                                  [] OTHER          -> "gz_native"
    /\ (SessionRead /\ FormatOf(self.cls) = "gz" /\ Len(disk.content) >= 2) =>
            /\ hist.eofReads[1] = NoExc
            /\ hist.got = Payloads(disk.content)

\* C30 witness: igzip failed the probe in a call of xopen(), pigz is not
\* installed, and the call returned a reader that runs gzip.
C30_Witness ==
    /\ XReturned /\ x.concat = Some(FALSE)
    /\ Len(x.log) = 3 /\ x.log[2].exc = OSErrorSpawn
    /\ x.result.backend = "PipedGzipReader" /\ x.running = 1

\* C30 witness: a file of two members with data has been read to its end
\* by the gzip program after igzip had failed the probe.
C30_WitnessMembers ==
    /\ SessionRead /\ FormatOf(self.cls) = "gz" /\ Len(disk.content) = 2
    /\ disk.content[1].payload = 1 /\ disk.content[2].payload = 1
    /\ hist.got = 2

\* The thread arguments in the command line: the options that are the flag
\* of the class with a number.
C31_ThreadArgs ==
    {i \in 1..Len(cmd.argv) :
        cmd.flag # None /\ cmd.argv[i].opt = cmd.flag[1] /\ cmd.argv[i].val # None}

\* C31: the command line of the child holds the thread flag with the number
\* of threads exactly when the class has a thread flag and the number of
\* threads is not 0; with threads=0 no thread flag is passed, by the piped
\* readers as by the piped writers.
C31_ThreadFlagUnlessZero ==
    cmd.kind # "none" =>
        /\ C31_ThreadArgs # {} <=> (cmd.flag # None /\ cmd.threads # Some(0))
        /\ \A i \in C31_ThreadArgs : cmd.argv[i].val # Some(0)

\* C32: when the program cannot be spawned in the constructor of a piped
\* writer, the destination file that the constructor had opened is closed
\* when the OSError reaches the caller: a failed constructor leaves no open
\* file behind.
C32_SpawnFailureClosesOutfile ==
    (self.kind = "failed" /\ self.cls \in WriterClasses) =>
        /\ self.outfile # "open"
        /\ hist.ctor = OSErrorSpawn => (self.outfile = "closed" /\ hist.opened = 1)
        /\ hist.opened = 1 => self.outfile = "closed"

\* C32 witness: pigz is not installed; the constructor of PipedPigzWriter
\* had opened the destination, raised, and the file is closed.
C32_Witness ==
    /\ self.kind = "failed" /\ self.cls = "PipedPigzWriter"
    /\ hist.ctor = OSErrorSpawn /\ hist.opened = 1 /\ hist.spawned = 0
    /\ self.outfile = "closed" /\ disk.opens = 1

\* C33: the closed flag of a piped stream only goes from false to true: once
\* it is set, no later operation on the stream (read, write, iteration,
\* close) clears it.  A step that leaves a stream with a close() call on
\* record is a step on the same stream.
C33_ClosedIsMonotonic ==
    [][(self.closed /\ hist'.closeCalls >= 1) => self'.closed]_vars

\* C33 witness: a write() and a second close() on a closed writer, which
\* is still closed.
C33_Witness ==
    /\ self.kind = "writer" /\ self.closed
    /\ hist.closeCalls = 2 /\ Len(hist.closeResults) = 2
    /\ hist.lastWrite = ValueErrorClosedFile

\* C34: after close() of a piped writer has returned or raised for any
\* reason, also when closing the pipe to the child failed because the child
\* had exited, the child has been waited for and the destination file is
\* closed.
C34_WriterCloseAlwaysCleansUp ==
    (self.kind = "writer" /\ Closed1) =>
        /\ hist.waits >= 1 /\ proc.returncode # None
        /\ self.outfile = "closed"

\* The caller is inside peek() on the child's stdout (line 421) and there
\* is nothing to read.
C35_CallerWaitsForOutput ==
    /\ self.kind = "constructing" /\ call.pc = "r421"
    /\ proc.outpipe = 0 /\ proc.stdout = "open"

\* C35: a piped reader and its child do not wait for each other over
\* stderr: in no state the caller is waiting for output on the child's
\* stdout while the child is stopped in a write to a full stderr pipe that
\* nothing reads before close().
C35_NoStderrDeadlock ==
    ~(C35_CallerWaitsForOutput /\ proc.st = "blocked")

\* The first close() of a piped reader raised: it found an exit status of the
\* child that is not zero and not waived.
C36_ReaderCloseRaised ==
    self.kind = "reader" /\ Closed1 /\ FirstClose.exc # NoExc

\* C36: when close() of a piped reader finds an exit status that is not zero
\* and not waived, what it raises is an OSError that carries the exit status,
\* also when the child wrote nothing to stderr: close() does not read the
\* stderr pipe again after communicate() has read and closed it.
C36_CloseRaisesOSErrorWithCode ==
    C36_ReaderCloseRaised =>
        /\ FirstClose.exc.type = "OSError"
        /\ FirstClose.exc.msg = <<proc.errText, "exit code", proc.code>>

\* C37: when xopen() in write or append mode raises the error of an invalid
\* compresslevel, the destination has not been opened (so neither created
\* nor truncated) during that call, whatever candidates were tried before.
C37_LevelErrorLeavesPathUntouched ==
    (/\ XRaised("ValueError")
     /\ x.result.exc.about = "compresslevel"
     /\ x.mode \in {"wt", "wb", "at", "ab"}) => x.opened = 0

\* xopen() ended in _open_reproducible_gzip with the error of the encoder's
\* constructor, after the function had opened the destination.
C38_EncoderFailedAfterOpen ==
    /\ XRaised("ValueError")
    /\ Len(x.log) >= 1
    /\ x.log[Len(x.log)].cand = "gzip.GzipFile"
    /\ x.log[Len(x.log)].exc = ValueErrorNative
    /\ x.log[Len(x.log)].opened = 1

\* C38: when _open_reproducible_gzip cannot construct the gzip encoder after
\* it has opened the destination (both encoders reject the level), the file
\* it opened is closed when the error reaches the caller.
C38_EncoderFailureClosesFile ==
    C38_EncoderFailedAfterOpen => x.binary_file = "closed"

\* The result of the call is an error or a stream without a subprocess.
C39_RaisedOrInProcess ==
    \/ x.result.kind = "error"
    \/ x.result.kind = "stream" /\ ~x.result.piped

\* C39: when xopen() has returned or raised, no child spawned for a rejected
\* candidate is running any more, at most one child spawned by the call is
\* running, and none if the call raised or returned an in-process stream.
C39_NoChildLeftBehind ==
    XDone =>
        /\ \A i \in 1..Len(x.log) : x.log[i].exc # NoExc => x.log[i].running = 0
        /\ x.running <= 1
        /\ C39_RaisedOrInProcess => x.running = 0

====
